---- MODULE Spec2Model ----
(***************************************************************************)
(* A model of scripts/init_repo.py: the provisioning sequencer that runs   *)
(* the external tools gh and gcloud step by step.  One behaviour is one or *)
(* more runs of a CLI command (all, github, gcp, secrets).  Every external *)
(* process launch is one action; the answer of the external tool (return   *)
(* code, stdout, stderr) is chosen by the environment.                     *)
(***************************************************************************)
EXTENDS Integers, Sequences, FiniteSets, TLC

VARIABLES
    command,            \* the CLI command of the run: all, github, gcp, secrets
    gcp_mode,           \* GcpMode: own or shared
    country_name,       \* CLI options
    gcp_project_id,
    gcp_project_name,
    gh_owner,
    gh_repo_name,
    project_number,     \* the secrets option / the value returned by setup_gcp
    which,              \* the tools shutil.which finds on the PATH
    env,                \* how the external tools answer: any, faithful
    world,              \* the resources that exist at the external services
    earlier_runs,       \* the exit codes of the earlier runs of the script
    pc,                 \* the position of the run in the code
    active_account,     \* the local of _setup_gcp_own read from gcloud auth list
    api_i,              \* the loop index i of the API-enable loop
    calls,              \* the external events of the run, in order
    announced,          \* the <<step, total>> pairs _step_header printed
    exit_code,          \* -1 while running, else the process exit code
    \* scripts/upload_demo_asset.py
    argv_project,       \* the value of --project on the command line, None without
    environ_project,    \* os.environ.get("GOOGLE_CLOUD_PROJECT")
    project,            \* the argument of upload_demo_asset
    upload_pc,          \* the position of upload_demo_asset.py in its code
    ee_calls,           \* the Earth Engine calls made, in order, the polls left out
    task,               \* the export task as the service holds it
    sleeps,             \* the number of time.sleep(2) calls made, up to MaxSleeps
    printed,            \* the lines printed
    upload_exit         \* -1 while running, else the process exit code

init_repo == <<command, gcp_mode, country_name, gcp_project_id, gcp_project_name,
               gh_owner, gh_repo_name, project_number, which, env, world, earlier_runs, pc,
               active_account, api_i, calls, announced, exit_code>>

upload == <<argv_project, environ_project, project, upload_pc, ee_calls, task, sleeps,
            printed, upload_exit>>

vars == <<init_repo, upload>>

inputs == <<command, gcp_mode, country_name, gcp_project_id, gcp_project_name,
            gh_owner, gh_repo_name, which, env>>

-----------------------------------------------------------------------------
(* Module constants, init_repo.py lines 28-31.                             *)

SHARED_GCP_PROJECT == "goog-rle-assessments"
SHARED_SA_NAME == "github-actions-rle"
SA_NAME == "github-actions"
TEMPLATE_REPO == "RLE-Assessment/TEMPLATE-rle-assessment"

\* Python's None: the stdout / stderr of a process run without capture_output,
\* an input_data that was not given, a variable not yet assigned.
None == "<None>"

\* The task object before task.start().
NoTask == [state |-> "UNSUBMITTED", error_message |-> None]

-----------------------------------------------------------------------------
(* Bounds of the model.                                                    *)

\* The script is run at most MaxRuns times against the same target.
MaxRuns == 2

\* The calls of time.sleep(2) in upload_demo_asset.py are counted up to
\* MaxSleeps; the loop itself goes on for as long as the task is active.
MaxSleeps == 2

\* The option values a run is started with.
Commands == {"all", "github", "gcp", "secrets"}
GcpModes == {"own", "shared"}
\* <<gh_owner, gh_repo_name, gcp_project_id, gcp_project_name>>: the first and
\* the last differ in the project id and the project name only.
Targets ==
    {<<"owner", "repo", "proj-id", "Proj Name">>,
     <<"acme", "rle-ruritania", "p1", "Proj Name">>,
     <<"owner", "repo", "p1", "Other Name">>}
ProjectNames == {"Proj Name", "Other Name"}
CountryNames == {"Ruritania"}
ProjectNumbers == {"123", "987654321"}

\* What the external tools may print.
ErrTexts == {"PERMISSION_DENIED",
             "ALREADY_EXISTS: entity exists",
             "Service account github-actions already exists within project",
             ""}
NumberOutputs == {"123456789\n", ""}
AccountOutputs == {"user@example.com\n", ""}

\* The values of --project and of GOOGLE_CLOUD_PROJECT.
ArgvProjects == {None, "", "cli-project"}
EnvironProjects == {None, "", "env-project"}
\* What the status of a failed task may say.
ErrorMessages == {None, "Internal error."}

-----------------------------------------------------------------------------
(* String helpers: Python's `in` on strings and str.strip().               *)

\* sub in s
Contains(s, sub) ==
    \E i \in 0..(Len(s) - Len(sub)) : SubSeq(s, i + 1, i + Len(sub)) = sub

Whitespace == {" ", "\n", "\t", "\r"}

RECURSIVE lstrip(_)
lstrip(s) ==
    IF Len(s) > 0 /\ SubSeq(s, 1, 1) \in Whitespace
    THEN lstrip(SubSeq(s, 2, Len(s)))
    ELSE s

RECURSIVE rstrip(_)
rstrip(s) ==
    IF Len(s) > 0 /\ SubSeq(s, Len(s), Len(s)) \in Whitespace
    THEN rstrip(SubSeq(s, 1, Len(s) - 1))
    ELSE s

\* s.strip()
strip(s) == rstrip(lstrip(s))

-----------------------------------------------------------------------------
(* run_command, init_repo.py lines 60-124.                                 *)

_is_already_exists_error_first_only(stderr) ==
    Contains(stderr, "ALREADY_EXISTS")

_is_already_exists_error_always(stderr) ==
    TRUE

\* lines 60-62
_is_already_exists_error(stderr) ==
    Contains(stderr, "ALREADY_EXISTS") \/ Contains(stderr, "already exists")

\* subprocess.run(cmd, capture_output=..., text=True, input=...), lines 104-109:
\* the CompletedProcess the code sees.  Without capture_output the output of
\* the process goes to the terminal and stdout / stderr are None.
subprocess_run(capture_output, a) ==
    [returncode |-> a.returncode,
     stdout |-> IF capture_output THEN a.out ELSE None,
     stderr |-> IF capture_output THEN a.err ELSE None]

subprocess_input_dropped(input_data) ==
    None

\* line 108, input=input_data: what the process reads from its stdin; None
\* when the caller gave no payload (the process inherits the terminal).
subprocess_input(input_data) ==
    input_data

run_command_outcome_no_raise(result, skip_if_exists) ==
    IF result.returncode = 0 THEN "done" ELSE "skipped"

run_command_outcome_ignore_flag(result, skip_if_exists) ==
    IF result.returncode = 0
    THEN "done"
    ELSE IF _is_already_exists_error(
                IF result.stderr = None THEN "" ELSE result.stderr)
         THEN "skipped"
         ELSE "failed"

run_command_outcome_skip_fatal(result, skip_if_exists) ==
    IF result.returncode = 0 THEN "done" ELSE "failed"

\* lines 111-122: done, skipped (already exists), or failed (typer.Exit(1))
run_command_outcome(result, skip_if_exists) ==
    IF result.returncode = 0
    THEN "done"
    ELSE IF skip_if_exists
            /\ _is_already_exists_error(
                   IF result.stderr = None THEN "" ELSE result.stderr)
         THEN "skipped"
         ELSE "failed"

-----------------------------------------------------------------------------
(* The external tools.  An answer is what one process does: its return     *)
(* code and what it writes to stdout and stderr.                           *)

IsGhAuthStatus(cmd) == cmd = <<"gh", "auth", "status">>
IsGcloudAuthList(cmd) == Len(cmd) >= 3 /\ SubSeq(cmd, 1, 3) = <<"gcloud", "auth", "list">>
IsRepoView(cmd) == Len(cmd) >= 3 /\ SubSeq(cmd, 1, 3) = <<"gh", "repo", "view">>
IsRepoCreate(cmd) == Len(cmd) >= 3 /\ SubSeq(cmd, 1, 3) = <<"gh", "repo", "create">>
IsPagesEnvPut(cmd) ==
    Len(cmd) >= 5 /\ SubSeq(cmd, 1, 2) = <<"gh", "api">> /\ SubSeq(cmd, 4, 5) = <<"-X", "PUT">>
IsBranchPolicyPost(cmd) ==
    Len(cmd) >= 5 /\ SubSeq(cmd, 1, 2) = <<"gh", "api">> /\ SubSeq(cmd, 4, 5) = <<"-X", "POST">>
IsSecretSet(cmd) == Len(cmd) >= 3 /\ SubSeq(cmd, 1, 3) = <<"gh", "secret", "set">>
IsProjectsDescribe(cmd) ==
    Len(cmd) >= 3 /\ SubSeq(cmd, 1, 3) = <<"gcloud", "projects", "describe">>
IsDescribeProjectId(cmd) ==
    IsProjectsDescribe(cmd) /\ Len(cmd) = 5 /\ cmd[5] = "--format=value(projectId)"
IsDescribeProjectNumber(cmd) ==
    IsProjectsDescribe(cmd) /\ Len(cmd) = 5 /\ cmd[5] = "--format=value(projectNumber)"
IsConfigSetProject(cmd) ==
    Len(cmd) >= 4 /\ SubSeq(cmd, 1, 4) = <<"gcloud", "config", "set", "project">>
IsProjectsCreate(cmd) ==
    Len(cmd) >= 3 /\ SubSeq(cmd, 1, 3) = <<"gcloud", "projects", "create">>
IsProjectIamBinding(cmd) ==
    Len(cmd) >= 3 /\ SubSeq(cmd, 1, 3) = <<"gcloud", "projects", "add-iam-policy-binding">>
IsServicesEnable(cmd) ==
    Len(cmd) >= 3 /\ SubSeq(cmd, 1, 3) = <<"gcloud", "services", "enable">>
IsPoolCreate(cmd) ==
    Len(cmd) >= 4 /\ SubSeq(cmd, 1, 4) = <<"gcloud", "iam", "workload-identity-pools", "create">>
IsProviderCreate(cmd) ==
    Len(cmd) >= 5
    /\ SubSeq(cmd, 1, 5) = <<"gcloud", "iam", "workload-identity-pools", "providers", "create-oidc">>
IsServiceAccountCreate(cmd) ==
    Len(cmd) >= 4 /\ SubSeq(cmd, 1, 4) = <<"gcloud", "iam", "service-accounts", "create">>
IsServiceAccountIamBinding(cmd) ==
    Len(cmd) >= 4
    /\ SubSeq(cmd, 1, 4) = <<"gcloud", "iam", "service-accounts", "add-iam-policy-binding">>

\* The resource a command creates at the external service when it succeeds,
\* None for a command that creates nothing (a query, an update, a binding).
Creates(cmd) ==
    CASE IsRepoCreate(cmd) -> "repo"
      [] IsBranchPolicyPost(cmd) -> "branch_policy"
      [] IsProjectsCreate(cmd) -> "project"
      [] IsPoolCreate(cmd) -> "pool"
      [] IsProviderCreate(cmd) -> "provider"
      [] IsServiceAccountCreate(cmd) -> "service_account"
      [] OTHER -> None

Resources == {"repo", "branch_policy", "project", "pool", "provider", "service_account"}

\* The resource whose existence a query reports, None for any other command.
Queries(cmd) ==
    CASE IsRepoView(cmd) -> "repo"
      [] IsDescribeProjectId(cmd) -> "project"
      [] OTHER -> None

\* What a successful command prints on stdout.
Outputs(cmd) ==
    CASE IsDescribeProjectNumber(cmd) -> NumberOutputs
      [] IsDescribeProjectId(cmd) -> {cmd[4] \o "\n", "another-project\n", ""}
      [] IsGcloudAuthList(cmd) -> AccountOutputs
      [] OTHER -> {""}

\* What a successful command of a healthy tool prints on stdout.
HealthyOutputs(cmd) ==
    IF IsDescribeProjectId(cmd)
    THEN {cmd[4] \o "\n"}
    ELSE {x \in Outputs(cmd) : x # "" \/ Outputs(cmd) = {""}}

\* The error texts by which a tool says that the resource already exists.
AlreadyExistsTexts ==
    {e \in ErrTexts : Contains(e, "ALREADY_EXISTS") \/ Contains(e, "already exists")}

\* What a failing command prints on stderr.  The commands the code launches
\* directly, without run_command, never have their stderr read.
Errors(cmd) ==
    IF \/ IsGhAuthStatus(cmd) \/ IsGcloudAuthList(cmd) \/ IsRepoView(cmd)
       \/ IsDescribeProjectId(cmd) \/ IsConfigSetProject(cmd)
    THEN {"PERMISSION_DENIED"}
    ELSE ErrTexts

\* env = "any": a tool may succeed or fail for any reason.
AnyAnswers(cmd) ==
    {[returncode |-> 0, out |-> o, err |-> ""] : o \in Outputs(cmd)}
    \cup {[returncode |-> 1, out |-> "", err |-> e] : e \in Errors(cmd)}

\* env = "faithful": the tools are installed, authenticated and healthy, and
\* answer by what exists: a query reports existence, the creation of an
\* existing resource is answered with an already-exists error, everything
\* else succeeds.
FaithfulAnswers(cmd) ==
    IF Creates(cmd) # None /\ Creates(cmd) \in world
    THEN {[returncode |-> 1, out |-> "", err |-> e] : e \in AlreadyExistsTexts}
    ELSE IF Queries(cmd) # None /\ Queries(cmd) \notin world
    THEN {[returncode |-> 1, out |-> "", err |-> "PERMISSION_DENIED"]}
    ELSE {[returncode |-> 0, out |-> o, err |-> ""] : o \in HealthyOutputs(cmd)}

Answers(cmd) == IF env = "faithful" THEN FaithfulAnswers(cmd) ELSE AnyAnswers(cmd)

\* The resources that exist after the command was answered with a.
Effect(cmd, a) ==
    IF a.returncode = 0 /\ Creates(cmd) # None
    THEN world \cup {Creates(cmd)}
    ELSE world

-----------------------------------------------------------------------------
(* The events of a run.                                                    *)

\* via: run_command, subprocess.run or time.sleep; input: the input_data the
\* call was given; stdin: the payload the process received; result: the
\* CompletedProcess the code holds; errtext: what the process wrote to stderr,
\* captured or not;
\* outcome: what run_command made of the result; raised: the call raised
\* typer.Exit instead of returning result to its caller.
Event(via, cmd, title, step, capture_output, input_data, skip_if_exists, result, errtext, outcome) ==
    [via |-> via, cmd |-> cmd, title |-> title, step |-> step,
     capture_output |-> capture_output, input |-> input_data,
     skip_if_exists |-> skip_if_exists, result |-> result, errtext |-> errtext,
     outcome |-> outcome,
     stdin |-> IF via = "time.sleep" THEN None ELSE subprocess_input(input_data),
     raised |-> (outcome = "failed")]

\* raise typer.Exit(code=...)
Exit(code) == pc' = "exited" /\ exit_code' = code

\* run_command(cmd, step=, total=, title=, capture=, input_data=,
\* skip_if_exists=), lines 65-124, answered with a; it returns to next_pc.
RunCommand(cmd, step, total, title, capture, input_data, skip_if_exists, a, next_pc) ==
    LET result == subprocess_run(capture \/ skip_if_exists, a)
        outcome == run_command_outcome(result, skip_if_exists)
    IN  /\ announced' = Append(announced, <<step, total>>)
        /\ calls' = Append(calls,
               Event("run_command", cmd, title, step, capture \/ skip_if_exists,
                     input_data, skip_if_exists, result, a.err, outcome))
        /\ world' = Effect(cmd, a)
        /\ IF outcome = "failed"
           THEN Exit(1)
           ELSE pc' = next_pc /\ exit_code' = exit_code

\* subprocess.run(cmd, capture_output=True, text=True) called directly.
Subprocess(cmd, a) ==
    /\ calls' = Append(calls,
           Event("subprocess.run", cmd, None, 0, TRUE, None, FALSE,
                 subprocess_run(TRUE, a), a.err, "unchecked"))
    /\ world' = Effect(cmd, a)

-----------------------------------------------------------------------------
(* Step numbering: cmd_all lines 708-711, the defaults of the phases.      *)

github_steps == 3
gcp_steps == IF gcp_mode = "own" THEN 8 ELSE 2
secret_steps == 2
total == github_steps + gcp_steps + secret_steps

\* The total argument of setup_gcp that was not given (total=None, line 586).
NoTotal == -1

\* setup_gcp, lines 590-598: final_total
setup_gcp_final_total(t) ==
    IF gcp_mode = "own"
    THEN IF t # NoTotal THEN t ELSE 7
    ELSE IF t # NoTotal THEN t ELSE 2

\* The step_offset and total each phase runs with: cmd_all passes them (lines
\* 727-746), github / gcp / secrets leave the defaults (lines 780, 808, 836).
github_step_offset == 0
github_total == IF command = "all" THEN total ELSE 3
gcp_step_offset == IF command = "all" THEN github_steps ELSE 0
gcp_total == setup_gcp_final_total(IF command = "all" THEN total ELSE NoTotal)
secrets_step_offset == IF command = "all" THEN github_steps + gcp_steps ELSE 0
secrets_total == IF command = "all" THEN total ELSE 2

\* check_prerequisites(need_gh=, need_gcloud=) as each command calls it,
\* lines 724, 779, 807, 835.
need_gh_always == TRUE

need_gh == command \in {"all", "github", "secrets"}
need_gcloud == command \in {"all", "gcp"}

\* Where each command goes after check_prerequisites and after each phase.
GcpEntry == IF gcp_mode = "own" THEN "own_describe" ELSE "shared_describe"
AfterPrerequisites ==
    CASE command \in {"all", "github"} -> "github_view"
      [] command = "gcp" -> GcpEntry
      [] command = "secrets" -> "secrets_wif"
AfterGithub == IF command = "all" THEN GcpEntry ELSE "return"
AfterGcp == IF command = "all" THEN "secrets_wif" ELSE "return"

-----------------------------------------------------------------------------
(* check_prerequisites, lines 131-183.                                     *)

PrereqGcloudAuthEmptyAccepted ==
    /\ pc = "prereq_gcloud_auth"
    /\ \E a \in Answers(<<"gcloud", "auth", "list", "--filter=status:ACTIVE", "--format=value(account)">>) :
         /\ Subprocess(<<"gcloud", "auth", "list", "--filter=status:ACTIVE", "--format=value(account)">>, a)
         /\ IF a.returncode # 0
            THEN Exit(1)
            ELSE pc' = AfterPrerequisites /\ exit_code' = exit_code
    /\ UNCHANGED <<upload, inputs, project_number, earlier_runs, active_account, api_i, announced>>

\* lines 137-145: shutil.which("gh")
PrereqGhWhich ==
    /\ pc = "prereq_gh"
    /\ IF "gh" \notin which
       THEN Exit(1)
       ELSE pc' = "prereq_gh_auth" /\ exit_code' = exit_code
    /\ UNCHANGED <<upload, inputs, project_number, world, earlier_runs, active_account, api_i,
                   calls, announced>>

\* lines 147-159: gh auth status
PrereqGhAuth ==
    /\ pc = "prereq_gh_auth"
    /\ \E a \in Answers(<<"gh", "auth", "status">>) :
         /\ Subprocess(<<"gh", "auth", "status">>, a)
         /\ IF a.returncode # 0
            THEN Exit(1)
            ELSE /\ pc' = IF need_gcloud THEN "prereq_gcloud" ELSE AfterPrerequisites
                 /\ exit_code' = exit_code
    /\ UNCHANGED <<upload, inputs, project_number, earlier_runs, active_account, api_i, announced>>

\* lines 161-169: shutil.which("gcloud")
PrereqGcloudWhich ==
    /\ pc = "prereq_gcloud"
    /\ IF "gcloud" \notin which
       THEN Exit(1)
       ELSE pc' = "prereq_gcloud_auth" /\ exit_code' = exit_code
    /\ UNCHANGED <<upload, inputs, project_number, world, earlier_runs, active_account, api_i,
                   calls, announced>>

GcloudAuthListCmd ==
    <<"gcloud", "auth", "list", "--filter=status:ACTIVE", "--format=value(account)">>

\* lines 171-183: gcloud auth list
PrereqGcloudAuth ==
    /\ pc = "prereq_gcloud_auth"
    /\ \E a \in Answers(GcloudAuthListCmd) :
         /\ Subprocess(GcloudAuthListCmd, a)
         /\ IF a.returncode # 0 \/ strip(a.out) = ""
            THEN Exit(1)
            ELSE pc' = AfterPrerequisites /\ exit_code' = exit_code
    /\ UNCHANGED <<upload, inputs, project_number, earlier_runs, active_account, api_i, announced>>

-----------------------------------------------------------------------------
(* setup_github, lines 190-274.                                            *)

repo_full == gh_owner \o "/" \o gh_repo_name

RepoViewCmd == <<"gh", "repo", "view", repo_full, "--json", "name">>

RepoCreateCmd ==
    <<"gh", "repo", "create", gh_repo_name,
      "--template=" \o TEMPLATE_REPO,
      "--description=An IUCN Red List of Ecosystems assessment for " \o country_name,
      "--public",
      "--include-all-branches">>

PagesEnvCmd ==
    <<"gh", "api",
      "repos/" \o gh_owner \o "/" \o gh_repo_name \o "/environments/github-pages",
      "-X", "PUT",
      "--input", "-">>

\* json.dumps of the deployment branch policy, lines 246-251
PagesEnvInput ==
    "{\"deployment_branch_policy\": {\"protected_branches\": false, \"custom_branch_policies\": true}}"

DeployBranchCmd ==
    <<"gh", "api",
      "repos/" \o gh_owner \o "/" \o gh_repo_name
          \o "/environments/github-pages/deployment-branch-policies",
      "-X", "POST",
      "-f", "name=main",
      "-f", "type=branch">>

GithubRepoViewAlwaysCreate ==
    /\ pc = "github_view"
    /\ \E a \in Answers(RepoViewCmd) : Subprocess(RepoViewCmd, a)
    /\ pc' = "github_create"
    /\ UNCHANGED <<upload, inputs, project_number, earlier_runs, active_account, api_i, announced,
                   exit_code>>

\* lines 202-208: gh repo view; an existing repository is announced as skipped
GithubRepoView ==
    /\ pc = "github_view"
    /\ \E a \in Answers(RepoViewCmd) :
         /\ Subprocess(RepoViewCmd, a)
         /\ IF a.returncode = 0
            THEN /\ announced' = Append(announced, <<github_step_offset + 1, github_total>>)
                 /\ pc' = "github_pages_env"
            ELSE /\ announced' = announced
                 /\ pc' = "github_create"
    /\ UNCHANGED <<upload, inputs, project_number, earlier_runs, active_account, api_i, exit_code>>

\* lines 210-227
GithubRepoCreate ==
    /\ pc = "github_create"
    /\ \E a \in Answers(RepoCreateCmd) :
         RunCommand(RepoCreateCmd, github_step_offset + 1, github_total,
                    "Create GitHub Repository", FALSE, None, FALSE, a,
                    "github_pages_env")
    /\ UNCHANGED <<upload, inputs, project_number, earlier_runs, active_account, api_i>>

\* lines 229-252
GithubPagesEnv ==
    /\ pc = "github_pages_env"
    /\ \E a \in Answers(PagesEnvCmd) :
         RunCommand(PagesEnvCmd, github_step_offset + 2, github_total,
                    "Create GitHub Pages Environment", FALSE, PagesEnvInput, FALSE, a,
                    "github_deploy_branch")
    /\ UNCHANGED <<upload, inputs, project_number, earlier_runs, active_account, api_i>>

\* lines 254-274
GithubDeployBranch ==
    /\ pc = "github_deploy_branch"
    /\ \E a \in Answers(DeployBranchCmd) :
         RunCommand(DeployBranchCmd, github_step_offset + 3, github_total,
                    "Add 'main' as Deployment Branch", FALSE, None, FALSE, a,
                    AfterGithub)
    /\ UNCHANGED <<upload, inputs, project_number, earlier_runs, active_account, api_i>>

-----------------------------------------------------------------------------
(* _setup_gcp_own, lines 281-514.                                          *)

OwnDescribeCmd ==
    <<"gcloud", "projects", "describe", gcp_project_id, "--format=value(projectId)">>

ConfigSetProjectCmd == <<"gcloud", "config", "set", "project", gcp_project_id>>

ProjectsCreateCmd ==
    <<"gcloud", "projects", "create", gcp_project_id,
      "--name=" \o gcp_project_name,
      "--set-as-default">>

GrantOwnerCmd ==
    <<"gcloud", "projects", "add-iam-policy-binding", gcp_project_id,
      "--member=user:" \o active_account,
      "--role=roles/owner">>

apis_repeated ==
    <<"earthengine.googleapis.com",
      "iamcredentials.googleapis.com",
      "earthengine.googleapis.com",
      "cloudresourcemanager.googleapis.com">>

\* lines 359-364
apis ==
    <<"earthengine.googleapis.com",
      "iamcredentials.googleapis.com",
      "sts.googleapis.com",
      "cloudresourcemanager.googleapis.com">>

EnableApiCmd(api) ==
    <<"gcloud", "services", "enable", api, "--project=" \o gcp_project_id>>

EnableApiTitle(i) ==
    "Enable API (" \o ToString(i + 1) \o "/" \o ToString(Len(apis)) \o ")"

PoolCreateCmd ==
    <<"gcloud", "iam", "workload-identity-pools", "create", "github-pool",
      "--project=" \o gcp_project_id,
      "--location=global",
      "--display-name=GitHub Actions Pool">>

ProviderCreateCmd ==
    <<"gcloud", "iam", "workload-identity-pools", "providers", "create-oidc",
      "github-provider",
      "--project=" \o gcp_project_id,
      "--location=global",
      "--workload-identity-pool=github-pool",
      "--display-name=GitHub Provider",
      "--attribute-mapping=google.subject=assertion.sub,attribute.actor=assertion.actor,attribute.repository=assertion.repository,attribute.repository_owner=assertion.repository_owner",
      "--attribute-condition=assertion.repository != ''",
      "--issuer-uri=https://token.actions.githubusercontent.com">>

ServiceAccountCreateCmd ==
    <<"gcloud", "iam", "service-accounts", "create", SA_NAME,
      "--project=" \o gcp_project_id,
      "--display-name=GitHub Actions">>

own_sa_email_from_project_name ==
    SA_NAME \o "@" \o gcp_project_name \o ".iam.gserviceaccount.com"

\* line 436
own_sa_email == SA_NAME \o "@" \o gcp_project_id \o ".iam.gserviceaccount.com"

GrantRoleCmd(role) ==
    <<"gcloud", "projects", "add-iam-policy-binding", gcp_project_id,
      "--member=serviceAccount:" \o own_sa_email,
      "--role=" \o role>>

DescribeNumberCmd(id) ==
    <<"gcloud", "projects", "describe", id, "--format=value(projectNumber)">>

member_from_project_id(number) ==
    "principalSet://iam.googleapis.com/"
    \o "projects/" \o gcp_project_id \o "/locations/global/"
    \o "workloadIdentityPools/github-pool/"
    \o "attribute.repository/" \o gh_owner \o "/" \o gh_repo_name

\* lines 488-493 and 550-555
member(number) ==
    "principalSet://iam.googleapis.com/"
    \o "projects/" \o number \o "/locations/global/"
    \o "workloadIdentityPools/github-pool/"
    \o "attribute.repository/" \o gh_owner \o "/" \o gh_repo_name

OwnBindCmd ==
    <<"gcloud", "iam", "service-accounts", "add-iam-policy-binding",
      own_sa_email,
      "--project=" \o gcp_project_id,
      "--role=roles/iam.workloadIdentityUser",
      "--member=" \o member(project_number)>>

OwnProjectDescribeReturncodeOnly ==
    /\ pc = "own_describe"
    /\ \E a \in Answers(OwnDescribeCmd) :
         /\ Subprocess(OwnDescribeCmd, a)
         /\ IF a.returncode = 0
            THEN /\ announced' = Append(announced, <<gcp_step_offset + 1, gcp_total>>)
                 /\ pc' = "own_config_set"
            ELSE /\ announced' = announced
                 /\ pc' = "own_create"
    /\ UNCHANGED <<upload, inputs, project_number, earlier_runs, active_account, api_i, exit_code>>

\* lines 302-313: the existence query; an existing project is announced as
\* skipped and set as the default project next
OwnProjectDescribe ==
    /\ pc = "own_describe"
    /\ \E a \in Answers(OwnDescribeCmd) :
         /\ Subprocess(OwnDescribeCmd, a)
         /\ IF a.returncode = 0 /\ strip(a.out) = gcp_project_id
            THEN /\ announced' = Append(announced, <<gcp_step_offset + 1, gcp_total>>)
                 /\ pc' = "own_config_set"
            ELSE /\ announced' = announced
                 /\ pc' = "own_create"
    /\ UNCHANGED <<upload, inputs, project_number, earlier_runs, active_account, api_i, exit_code>>

\* lines 309-312: the return code is not looked at
OwnConfigSetProject ==
    /\ pc = "own_config_set"
    /\ \E a \in Answers(ConfigSetProjectCmd) : Subprocess(ConfigSetProjectCmd, a)
    /\ pc' = "own_auth_list"
    /\ UNCHANGED <<upload, inputs, project_number, earlier_runs, active_account, api_i, announced,
                   exit_code>>

\* lines 314-329
OwnProjectsCreate ==
    /\ pc = "own_create"
    /\ \E a \in Answers(ProjectsCreateCmd) :
         RunCommand(ProjectsCreateCmd, gcp_step_offset + 1, gcp_total,
                    "Create GCP Project", FALSE, None, FALSE, a, "own_auth_list")
    /\ UNCHANGED <<upload, inputs, project_number, earlier_runs, active_account, api_i>>

\* lines 332-336: the return code is not looked at
OwnAuthList ==
    /\ pc = "own_auth_list"
    /\ \E a \in Answers(GcloudAuthListCmd) :
         /\ Subprocess(GcloudAuthListCmd, a)
         /\ active_account' = strip(a.out)
    /\ pc' = "own_grant_owner"
    /\ UNCHANGED <<upload, inputs, project_number, earlier_runs, api_i, announced, exit_code>>

\* lines 338-354
OwnGrantOwner ==
    /\ pc = "own_grant_owner"
    /\ \E a \in Answers(GrantOwnerCmd) :
         RunCommand(GrantOwnerCmd, gcp_step_offset + 2, gcp_total,
                    "Ensure Owner Permissions", FALSE, None, FALSE, a, "own_sleep")
    /\ UNCHANGED <<upload, inputs, project_number, earlier_runs, active_account, api_i>>

OwnSleepTwice ==
    /\ pc = "own_sleep"
    /\ calls' = calls
           \o <<Event("time.sleep", <<"30">>, None, 0, FALSE, None, FALSE,
                      [returncode |-> 0, stdout |-> None, stderr |-> None], "", "done"),
                Event("time.sleep", <<"30">>, None, 0, FALSE, None, FALSE,
                      [returncode |-> 0, stdout |-> None, stderr |-> None], "", "done")>>
    /\ api_i' = 0
    /\ pc' = "own_enable_api"
    /\ UNCHANGED <<upload, inputs, project_number, world, earlier_runs, active_account,
                   announced, exit_code>>

OwnSleepOmitted ==
    /\ pc = "own_sleep"
    /\ api_i' = 0
    /\ pc' = "own_enable_api"
    /\ UNCHANGED <<upload, inputs, project_number, world, earlier_runs, active_account,
                   calls, announced, exit_code>>

\* lines 356-357: time.sleep(30)
OwnSleep ==
    /\ pc = "own_sleep"
    /\ calls' = Append(calls,
           Event("time.sleep", <<"30">>, None, 0, FALSE, None, FALSE,
                 [returncode |-> 0, stdout |-> None, stderr |-> None], "", "done"))
    /\ api_i' = 0
    /\ pc' = "own_enable_api"
    /\ UNCHANGED <<upload, inputs, project_number, world, earlier_runs, active_account, announced,
                   exit_code>>

\* lines 366-373: one pass of the loop over apis
OwnEnableApi ==
    /\ pc = "own_enable_api"
    /\ api_i < Len(apis)
    /\ \E a \in Answers(EnableApiCmd(apis[api_i + 1])) :
         RunCommand(EnableApiCmd(apis[api_i + 1]), gcp_step_offset + 3, gcp_total,
                    EnableApiTitle(api_i), FALSE, None, FALSE, a,
                    IF api_i + 1 < Len(apis) THEN "own_enable_api" ELSE "own_pool")
    /\ api_i' = api_i + 1
    /\ UNCHANGED <<upload, inputs, project_number, earlier_runs, active_account>>

\* lines 375-392
OwnCreatePool ==
    /\ pc = "own_pool"
    /\ \E a \in Answers(PoolCreateCmd) :
         RunCommand(PoolCreateCmd, gcp_step_offset + 4, gcp_total,
                    "Create Workload Identity Pool", FALSE, None, TRUE, a,
                    "own_provider")
    /\ UNCHANGED <<upload, inputs, project_number, earlier_runs, active_account, api_i>>

\* lines 394-417
OwnCreateProvider ==
    /\ pc = "own_provider"
    /\ \E a \in Answers(ProviderCreateCmd) :
         RunCommand(ProviderCreateCmd, gcp_step_offset + 5, gcp_total,
                    "Create OIDC Provider", FALSE, None, TRUE, a,
                    "own_service_account")
    /\ UNCHANGED <<upload, inputs, project_number, earlier_runs, active_account, api_i>>

\* lines 419-434
OwnCreateServiceAccount ==
    /\ pc = "own_service_account"
    /\ \E a \in Answers(ServiceAccountCreateCmd) :
         RunCommand(ServiceAccountCreateCmd, gcp_step_offset + 6, gcp_total,
                    "Create Service Account", FALSE, None, TRUE, a,
                    "own_role_1")
    /\ UNCHANGED <<upload, inputs, project_number, earlier_runs, active_account, api_i>>

\* lines 438-452
OwnGrantRole1 ==
    /\ pc = "own_role_1"
    /\ \E a \in Answers(GrantRoleCmd("roles/earthengine.writer")) :
         RunCommand(GrantRoleCmd("roles/earthengine.writer"),
                    gcp_step_offset + 7, gcp_total,
                    "Grant IAM Roles (1/2)", FALSE, None, FALSE, a, "own_role_2")
    /\ UNCHANGED <<upload, inputs, project_number, earlier_runs, active_account, api_i>>

\* lines 454-469
OwnGrantRole2 ==
    /\ pc = "own_role_2"
    /\ \E a \in Answers(GrantRoleCmd("roles/serviceusage.serviceUsageConsumer")) :
         RunCommand(GrantRoleCmd("roles/serviceusage.serviceUsageConsumer"),
                    gcp_step_offset + 7, gcp_total,
                    "Grant IAM Roles (2/2)", FALSE, None, FALSE, a, "own_number")
    /\ UNCHANGED <<upload, inputs, project_number, earlier_runs, active_account, api_i>>

\* lines 471-486: project_number = result.stdout.strip()
OwnDescribeNumber ==
    /\ pc = "own_number"
    /\ \E a \in Answers(DescribeNumberCmd(gcp_project_id)) :
         /\ RunCommand(DescribeNumberCmd(gcp_project_id),
                       gcp_step_offset + 8, gcp_total,
                       "Get GCP Project Number", TRUE, None, FALSE, a, "own_bind")
         /\ project_number' =
                IF run_command_outcome(subprocess_run(TRUE, a), FALSE) = "failed"
                THEN project_number
                ELSE strip(a.out)
    /\ UNCHANGED <<upload, inputs, earlier_runs, active_account, api_i>>

\* lines 495-514
OwnBindRepo ==
    /\ pc = "own_bind"
    /\ \E a \in Answers(OwnBindCmd) :
         RunCommand(OwnBindCmd, gcp_step_offset + 8, gcp_total,
                    "Bind Repository to Service Account", FALSE, None, FALSE, a,
                    AfterGcp)
    /\ UNCHANGED <<upload, inputs, project_number, earlier_runs, active_account, api_i>>

-----------------------------------------------------------------------------
(* _setup_gcp_shared, lines 521-576.                                       *)

\* line 549
shared_sa_email ==
    SHARED_SA_NAME \o "@" \o SHARED_GCP_PROJECT \o ".iam.gserviceaccount.com"

SharedBindCmd_own_account ==
    <<"gcloud", "iam", "service-accounts", "add-iam-policy-binding",
      own_sa_email,
      "--project=" \o gcp_project_id,
      "--role=roles/iam.workloadIdentityUser",
      "--member=" \o member(project_number)>>

SharedBindCmd_project_flag ==
    <<"gcloud", "iam", "service-accounts", "add-iam-policy-binding",
      shared_sa_email,
      "--project=" \o gcp_project_id,
      "--role=roles/iam.workloadIdentityUser",
      "--member=" \o member(project_number)>>

SharedBindCmd ==
    <<"gcloud", "iam", "service-accounts", "add-iam-policy-binding",
      shared_sa_email,
      "--project=" \o SHARED_GCP_PROJECT,
      "--role=roles/iam.workloadIdentityUser",
      "--member=" \o member(project_number)>>

\* lines 532-547: project_number = result.stdout.strip()
SharedDescribeNumber ==
    /\ pc = "shared_describe"
    /\ \E a \in Answers(DescribeNumberCmd(SHARED_GCP_PROJECT)) :
         /\ RunCommand(DescribeNumberCmd(SHARED_GCP_PROJECT),
                       gcp_step_offset + 1, gcp_total,
                       "Get Shared Project Number", TRUE, None, FALSE, a,
                       "shared_bind")
         /\ project_number' =
                IF run_command_outcome(subprocess_run(TRUE, a), FALSE) = "failed"
                THEN project_number
                ELSE strip(a.out)
    /\ UNCHANGED <<upload, inputs, earlier_runs, active_account, api_i>>

\* lines 557-576
SharedBind ==
    /\ pc = "shared_bind"
    /\ \E a \in Answers(SharedBindCmd) :
         RunCommand(SharedBindCmd, gcp_step_offset + 2, gcp_total,
                    "Add IAM Binding to Shared Project", FALSE, None, FALSE, a,
                    AfterGcp)
    /\ UNCHANGED <<upload, inputs, project_number, earlier_runs, active_account, api_i>>

-----------------------------------------------------------------------------
(* setup_secrets, lines 609-666.                                           *)

wif_provider_from_project_id ==
    "projects/" \o gcp_project_id \o "/locations/global/"
    \o "workloadIdentityPools/github-pool/providers/github-provider"

\* lines 621-624 and 627-630: the same path in both modes
wif_provider ==
    "projects/" \o project_number \o "/locations/global/"
    \o "workloadIdentityPools/github-pool/providers/github-provider"

secrets_sa_email_own_always ==
    SA_NAME \o "@" \o gcp_project_id \o ".iam.gserviceaccount.com"

\* lines 620-631: sa_email
secrets_sa_email ==
    IF gcp_mode = "own"
    THEN SA_NAME \o "@" \o gcp_project_id \o ".iam.gserviceaccount.com"
    ELSE SHARED_SA_NAME \o "@" \o SHARED_GCP_PROJECT \o ".iam.gserviceaccount.com"

\* line 633
repo == gh_owner \o "/" \o gh_repo_name

SecretWifCmd ==
    <<"gh", "secret", "set", "GCP_WORKLOAD_IDENTITY_PROVIDER",
      "--repo", repo,
      "--body", wif_provider>>

SecretSaCmd ==
    <<"gh", "secret", "set", "GCP_SERVICE_ACCOUNT",
      "--repo", repo,
      "--body", secrets_sa_email>>

\* lines 635-650
SecretsSetWif ==
    /\ pc = "secrets_wif"
    /\ \E a \in Answers(SecretWifCmd) :
         RunCommand(SecretWifCmd, secrets_step_offset + 1, secrets_total,
                    "Set GCP_WORKLOAD_IDENTITY_PROVIDER Secret", FALSE, None, FALSE, a,
                    "secrets_sa")
    /\ UNCHANGED <<upload, inputs, project_number, earlier_runs, active_account, api_i>>

\* lines 652-666
SecretsSetSa ==
    /\ pc = "secrets_sa"
    /\ \E a \in Answers(SecretSaCmd) :
         RunCommand(SecretSaCmd, secrets_step_offset + 2, secrets_total,
                    "Set GCP_SERVICE_ACCOUNT Secret", FALSE, None, FALSE, a,
                    "return")
    /\ UNCHANGED <<upload, inputs, project_number, earlier_runs, active_account, api_i>>

-----------------------------------------------------------------------------
(* The commands of the Typer app, lines 680-840.                           *)

\* The command function returns: the process ends with exit code 0.
Return ==
    /\ pc = "return"
    /\ Exit(0)
    /\ UNCHANGED <<upload, inputs, project_number, world, earlier_runs, active_account, api_i,
                   calls, announced>>

\* The user runs the same command again, with the same options, against the
\* same target.
Rerun ==
    /\ pc = "exited"
    /\ Len(earlier_runs) + 1 < MaxRuns
    /\ earlier_runs' = Append(earlier_runs, exit_code)
    /\ pc' = IF need_gh THEN "prereq_gh" ELSE "prereq_gcloud"
    /\ project_number' = IF command = "secrets" THEN project_number ELSE None
    /\ active_account' = None
    /\ api_i' = 0
    /\ calls' = <<>>
    /\ announced' = <<>>
    /\ exit_code' = -1
    /\ UNCHANGED <<upload, inputs, world>>

\* upload_demo_asset.py is not run.
UploadIdle ==
    /\ argv_project = None
    /\ environ_project = None
    /\ project = None
    /\ upload_pc = "idle"
    /\ ee_calls = <<>>
    /\ task = NoTask
    /\ sleeps = 0
    /\ printed = <<>>
    /\ upload_exit = -1

\* The state when a command function is entered.
Start(e, tools, w) ==
    /\ command \in Commands
    /\ gcp_mode \in GcpModes
    /\ country_name \in CountryNames
    /\ gcp_project_name \in ProjectNames
    /\ \E t \in Targets :
         /\ gh_owner = t[1] /\ gh_repo_name = t[2] /\ gcp_project_id = t[3]
         /\ gcp_project_name = t[4]
    /\ project_number \in (IF command = "secrets" THEN ProjectNumbers ELSE {None})
    /\ which \in tools
    /\ env = e
    /\ world \in w
    /\ earlier_runs = <<>>
    /\ pc = IF need_gh THEN "prereq_gh" ELSE "prereq_gcloud"
    /\ active_account = None
    /\ api_i = 0
    /\ calls = <<>>
    /\ announced = <<>>
    /\ exit_code = -1
    /\ UploadIdle

Init == Start("any", SUBSET {"gh", "gcloud"}, {{}})

Step ==
    \/ PrereqGhWhich
    \/ PrereqGhAuth
    \/ PrereqGcloudWhich
    \/ PrereqGcloudAuth
    \/ GithubRepoView
    \/ GithubRepoCreate
    \/ GithubPagesEnv
    \/ GithubDeployBranch
    \/ OwnProjectDescribe
    \/ OwnConfigSetProject
    \/ OwnProjectsCreate
    \/ OwnAuthList
    \/ OwnGrantOwner
    \/ OwnSleep
    \/ OwnEnableApi
    \/ OwnCreatePool
    \/ OwnCreateProvider
    \/ OwnCreateServiceAccount
    \/ OwnGrantRole1
    \/ OwnGrantRole2
    \/ OwnDescribeNumber
    \/ OwnBindRepo
    \/ SharedDescribeNumber
    \/ SharedBind
    \/ SecretsSetWif
    \/ SecretsSetSa
    \/ Return

Next == Step

\* One run of a command, the external tools answering in any way.
Spec == Init /\ [][Next]_vars

\* Runs of a command one after the other against the same target, which
\* starts empty or fully provisioned, the external tools answering faithfully.
InitRerun == Start("faithful", {{"gh", "gcloud"}}, {{}, Resources})

NextRerun == Step \/ Rerun

SpecRerun == InitRerun /\ [][NextRerun]_vars

-----------------------------------------------------------------------------
(* scripts/upload_demo_asset.py.  Every call of the Earth Engine client is *)
(* one event: it returns, or it raises ee.EEException.                     *)

\* line 13
asset_id == "projects/" \o project \o "/assets/demo/null_island_ecosystems"

\* line 29
folder_id == "projects/" \o project \o "/assets/demo"

\* The states of an export task; task.active() is true in the first three.
ActiveStates == {"READY", "RUNNING", "CANCEL_REQUESTED"}
TerminalStates == {"COMPLETED", "FAILED", "CANCELLED"}

\* How the service may have moved the task on since the client last asked.
TaskSuccessors(t) ==
    IF t.state \in TerminalStates
    THEN {t}
    ELSE {t}
         \cup {[state |-> s, error_message |-> None] :
                   s \in (ActiveStates \ {"READY"}) \cup {"COMPLETED", "CANCELLED"}}
         \cup {[state |-> "FAILED", error_message |-> m] : m \in ErrorMessages}

\* One call of the Earth Engine client.
EeCall(fn, arg, raised) == [fn |-> fn, arg |-> arg, raised |-> raised]

\* The process ends: a return of the script (0), parser.error (2), or the
\* traceback of an exception nothing catches (1).
UploadExit(code) == upload_pc' = "exited" /\ upload_exit' = code

\* lines 80-90: the __main__ block
UploadMain ==
    /\ upload_pc = "main"
    /\ LET args_project == IF argv_project # None THEN argv_project ELSE environ_project
       IN  IF args_project = None \/ args_project = ""
           THEN /\ UploadExit(2)
                /\ printed' = Append(printed, "Provide --project or set GOOGLE_CLOUD_PROJECT")
                /\ project' = project
           ELSE /\ project' = args_project
                /\ upload_pc' = "initialize"
                /\ UNCHANGED <<printed, upload_exit>>
    /\ UNCHANGED <<init_repo, argv_project, environ_project, ee_calls, task, sleeps>>

\* lines 15-18: google.auth.default and ee.Initialize; an exception propagates
Initialize ==
    /\ upload_pc = "initialize"
    /\ \E raised \in BOOLEAN :
         /\ ee_calls' = Append(ee_calls, EeCall("ee.Initialize", project, raised))
         /\ IF raised
            THEN UploadExit(1)
            ELSE upload_pc' = "get_asset" /\ upload_exit' = upload_exit
    /\ UNCHANGED <<init_repo, argv_project, environ_project, project, task, sleeps, printed>>

\* lines 21-26: the lookup; the asset exists when getAsset returns
GetAsset ==
    /\ upload_pc = "get_asset"
    /\ \E raised \in BOOLEAN :
         /\ ee_calls' = Append(ee_calls, EeCall("ee.data.getAsset", asset_id, raised))
         /\ IF raised
            THEN /\ upload_pc' = "create_folder"
                 /\ UNCHANGED <<printed, upload_exit>>
            ELSE /\ printed' = Append(printed, "Asset already exists: " \o asset_id)
                 /\ UploadExit(0)
    /\ UNCHANGED <<init_repo, argv_project, environ_project, project, task, sleeps>>

CreateFolderUncaught ==
    /\ upload_pc = "create_folder"
    /\ \E raised \in BOOLEAN :
         /\ ee_calls' = Append(ee_calls, EeCall("ee.data.createAsset", folder_id, raised))
         /\ IF raised
            THEN UploadExit(1)
            ELSE upload_pc' = "export" /\ upload_exit' = upload_exit
    /\ UNCHANGED <<init_repo, argv_project, environ_project, project, task, sleeps, printed>>

\* lines 29-33: ee.EEException is passed over
CreateFolder ==
    /\ upload_pc = "create_folder"
    /\ \E raised \in BOOLEAN :
         ee_calls' = Append(ee_calls, EeCall("ee.data.createAsset", folder_id, raised))
    /\ upload_pc' = "export"
    /\ UNCHANGED <<init_repo, argv_project, environ_project, project, task, sleeps, printed,
                   upload_exit>>

\* lines 36-68: the two features, Export.table.toAsset and task.start(); the
\* line printed ends with the character U+2026, written ... here
StartExport ==
    /\ upload_pc = "export"
    /\ \E raised \in BOOLEAN :
         /\ ee_calls' = Append(ee_calls, EeCall("task.start", asset_id, raised))
         /\ IF raised
            THEN /\ UploadExit(1)
                 /\ UNCHANGED <<task, printed>>
            ELSE /\ task' = [state |-> "READY", error_message |-> None]
                 /\ printed' = Append(printed, "Uploading demo asset...")
                 /\ upload_pc' = "poll"
                 /\ upload_exit' = upload_exit
    /\ UNCHANGED <<init_repo, argv_project, environ_project, project, sleeps>>

\* line 70: one test of the while loop; task.active() asks the service
Poll ==
    /\ upload_pc = "poll"
    /\ \E t \in TaskSuccessors(task) :
         /\ task' = t
         /\ upload_pc' = IF t.state \in ActiveStates THEN "sleep" ELSE "status"
    /\ UNCHANGED <<init_repo, argv_project, environ_project, project, ee_calls, sleeps,
                   printed, upload_exit>>

\* line 71: time.sleep(2), and back to the test
Sleep ==
    /\ upload_pc = "sleep"
    /\ sleeps' = IF sleeps < MaxSleeps THEN sleeps + 1 ELSE sleeps
    /\ upload_pc' = "poll"
    /\ UNCHANGED <<init_repo, argv_project, environ_project, project, ee_calls, task,
                   printed, upload_exit>>

StatusDoneUnlessFailed ==
    /\ upload_pc = "status"
    /\ ee_calls' = Append(ee_calls, EeCall("task.status", asset_id, FALSE))
    /\ printed' = Append(printed,
           IF task.state # "FAILED"
           THEN "Done: " \o asset_id
           ELSE "Failed: " \o (IF task.error_message = None
                               THEN "unknown error"
                               ELSE task.error_message))
    /\ UploadExit(0)
    /\ UNCHANGED <<init_repo, argv_project, environ_project, project, task, sleeps>>

\* lines 73-77: task.status() and the last line printed
Status ==
    /\ upload_pc = "status"
    /\ ee_calls' = Append(ee_calls, EeCall("task.status", asset_id, FALSE))
    /\ printed' = Append(printed,
           IF task.state = "COMPLETED"
           THEN "Done: " \o asset_id
           ELSE "Failed: " \o (IF task.error_message = None
                               THEN "unknown error"
                               ELSE task.error_message))
    /\ UploadExit(0)
    /\ UNCHANGED <<init_repo, argv_project, environ_project, project, task, sleeps>>

\* python upload_demo_asset.py [--project P], GOOGLE_CLOUD_PROJECT set or not
InitUpload ==
    /\ argv_project \in ArgvProjects
    /\ environ_project \in EnvironProjects
    /\ project = None
    /\ upload_pc = "main"
    /\ ee_calls = <<>>
    /\ task = NoTask
    /\ sleeps = 0
    /\ printed = <<>>
    /\ upload_exit = -1
    /\ command = "all"
    /\ gcp_mode = "own"
    /\ country_name = "Ruritania"
    /\ gcp_project_name = "Proj Name"
    /\ gh_owner = "owner"
    /\ gh_repo_name = "repo"
    /\ gcp_project_id = "proj-id"
    /\ project_number = None
    /\ which = {}
    /\ env = "any"
    /\ world = {}
    /\ earlier_runs = <<>>
    /\ pc = "idle"
    /\ active_account = None
    /\ api_i = 0
    /\ calls = <<>>
    /\ announced = <<>>
    /\ exit_code = -1

NextUpload ==
    \/ UploadMain
    \/ Initialize
    \/ GetAsset
    \/ CreateFolder
    \/ StartExport
    \/ Poll
    \/ Sleep
    \/ Status

\* One run of upload_demo_asset.py.
SpecUpload == InitUpload /\ [][NextUpload]_vars

\* The same run of a process that is never suspended for good: its next
\* statement is executed, and time.sleep(2) returns.
SpecUploadLive == InitUpload /\ [][NextUpload]_vars /\ WF_vars(NextUpload)

-----------------------------------------------------------------------------
(* Vocabulary of the properties.                                           *)

Last(q) == q[Len(q)]

\* A launched external command (not a sleep).
Launched(c) == c.via \in {"run_command", "subprocess.run"}

HasMarker(text) == Contains(text, "ALREADY_EXISTS") \/ Contains(text, "already exists")

\* A run_command step whose process exited non-zero with an error the step
\* does not skip.
UnrecoverableFailure(c) ==
    /\ c.via = "run_command"
    /\ c.result.returncode # 0
    /\ ~(c.skip_if_exists /\ HasMarker(c.errtext))

\* The run was aborted with exit code 1.
Aborted == pc = "exited" /\ exit_code = 1

-----------------------------------------------------------------------------
\* C1: once a run_command step has ended in an unrecoverable failure, the run
\* is aborted with exit code 1 and no later event (command or sleep) of the
\* run exists: in every state the failed step is the last event of the run.
C1_FailureIsLastEvent ==
    \A i \in 1..Len(calls) :
        UnrecoverableFailure(calls[i]) => (i = Len(calls) /\ Aborted)

\* A GCP step of the `all` command failed, and the secrets phase stays un-run.
C1_Witness ==
    /\ command = "all"
    /\ calls # <<>>
    /\ UnrecoverableFailure(Last(calls))
    /\ IsProjectIamBinding(Last(calls).cmd)
    /\ Aborted
    /\ \A i \in 1..Len(calls) : ~IsSecretSet(calls[i].cmd)

\* C2: a step run with skip_if_exists=True whose process exits non-zero with an
\* error text containing ALREADY_EXISTS or "already exists" does not abort:
\* run_command does not raise, it returns the result with the non-zero return
\* code, and the run goes on.
C2_AlreadyExistsIsSkipped ==
    \A i \in 1..Len(calls) :
        (/\ calls[i].via = "run_command"
         /\ calls[i].skip_if_exists
         /\ calls[i].result.returncode # 0
         /\ HasMarker(calls[i].errtext))
        => /\ ~calls[i].raised
           /\ calls[i].outcome = "skipped"
           /\ calls[i].result.returncode # 0
           /\ (i = Len(calls) => (exit_code = -1 /\ pc # "exited"))

\* Both phrasings were skipped in one run, which then went on.
C2_Witness ==
    /\ \E i \in 1..Len(calls) :
         /\ calls[i].skip_if_exists
         /\ calls[i].result.returncode # 0
         /\ Contains(calls[i].errtext, "ALREADY_EXISTS")
    /\ \E i \in 1..Len(calls) :
         /\ calls[i].skip_if_exists
         /\ calls[i].result.returncode # 0
         /\ Contains(calls[i].errtext, "already exists")
    /\ pc = "exited"
    /\ exit_code = 0

\* C3: a step run without skip_if_exists whose process exits non-zero aborts
\* the run with exit code 1, whatever the error text.
C3_NoFlagAnyFailureAborts ==
    \A i \in 1..Len(calls) :
        (/\ calls[i].via = "run_command"
         /\ ~calls[i].skip_if_exists
         /\ calls[i].result.returncode # 0)
        => (calls[i].raised /\ i = Len(calls) /\ Aborted)

\* A step without the flag failed with an already-exists text and aborted.
C3_Witness ==
    /\ calls # <<>>
    /\ Last(calls).via = "run_command"
    /\ ~Last(calls).skip_if_exists
    /\ Last(calls).result.returncode # 0
    /\ Last(calls).capture_output
    /\ HasMarker(Last(calls).errtext)
    /\ Aborted

\* C4: a step run with skip_if_exists=True whose process exits non-zero with an
\* error text containing neither marker aborts the run with exit code 1.
C4_FlagOtherErrorAborts ==
    \A i \in 1..Len(calls) :
        (/\ calls[i].via = "run_command"
         /\ calls[i].skip_if_exists
         /\ calls[i].result.returncode # 0
         /\ ~HasMarker(calls[i].errtext))
        => (calls[i].raised /\ i = Len(calls) /\ Aborted)

\* A skip_if_exists step failed with PERMISSION_DENIED and aborted.
C4_Witness ==
    /\ calls # <<>>
    /\ Last(calls).via = "run_command"
    /\ Last(calls).skip_if_exists
    /\ Last(calls).result.returncode # 0
    /\ Last(calls).errtext = "PERMISSION_DENIED"
    /\ Aborted

-----------------------------------------------------------------------------
\* check_prerequisites ended the run: a required tool is missing, gh auth
\* status exited non-zero, or gcloud auth list exited non-zero or printed no
\* active account.
PrerequisiteFailed ==
    LET k == IF need_gh THEN 2 ELSE 1
    IN  \/ need_gh /\ "gh" \notin which
        \/ need_gcloud /\ "gcloud" \notin which
        \/ /\ need_gh
           /\ Len(calls) >= 1
           /\ IsGhAuthStatus(calls[1].cmd)
           /\ calls[1].result.returncode # 0
        \/ /\ need_gcloud
           /\ Len(calls) >= k
           /\ IsGcloudAuthList(calls[k].cmd)
           /\ (calls[k].result.returncode # 0 \/ strip(calls[k].result.stdout) = "")

\* A launched command other than an existence query exited non-zero and was
\* not skipped as already existing.
SomeCommandFailed ==
    \E i \in 1..Len(calls) :
        /\ Launched(calls[i])
        /\ Queries(calls[i].cmd) = None
        /\ calls[i].result.returncode # 0
        /\ ~(calls[i].skip_if_exists /\ HasMarker(calls[i].errtext))

\* C5: a run exits with code 1 if and only if a command it launched failed
\* unrecoverably or a prerequisite / authentication check failed, and with
\* code 0 in every other case; no run ends with exit code 0 after a launched
\* command returned a non-zero, non-skippable status.
C5_ExitCodeOneIffFailure ==
    pc = "exited" =>
        /\ exit_code \in {0, 1}
        /\ (exit_code = 1) <=> (PrerequisiteFailed \/ SomeCommandFailed)

\* C6: a second run of `all` against the target an earlier run provisioned
\* completely issues no repository-create and no project-create command, ends
\* the pool, provider and service-account creations as skipped, and exits
\* with code 0 (the tools answering faithfully).
C6_RerunCompletesWithoutCreation ==
    (/\ command = "all"
     /\ env = "faithful"
     /\ \E k \in 1..Len(earlier_runs) : earlier_runs[k] = 0)
    => /\ \A i \in 1..Len(calls) :
            /\ ~IsRepoCreate(calls[i].cmd)
            /\ ~IsProjectsCreate(calls[i].cmd)
            /\ (\/ IsPoolCreate(calls[i].cmd)
                \/ IsProviderCreate(calls[i].cmd)
                \/ IsServiceAccountCreate(calls[i].cmd))
               => calls[i].outcome = "skipped"
       /\ (pc = "exited" => exit_code = 0)

-----------------------------------------------------------------------------
\* The run_command steps of the GCP phase and its sleep, in order.
IsGcpStep(c) ==
    \/ c.via = "time.sleep"
    \/ c.via = "run_command" /\ c.cmd[1] = "gcloud"
GcpSteps == SelectSeq(calls, IsGcpStep)

\* What a step of the GCP phase does, read from its command line.
Kind(c) ==
    CASE c.via = "time.sleep" -> "sleep " \o c.cmd[1]
      [] IsProjectsCreate(c.cmd) -> "create project " \o c.cmd[4]
      [] IsProjectIamBinding(c.cmd) -> "grant " \o c.cmd[6] \o " " \o c.cmd[5]
      [] IsServicesEnable(c.cmd) -> "enable " \o c.cmd[4]
      [] IsPoolCreate(c.cmd) -> "create pool " \o c.cmd[5]
      [] IsProviderCreate(c.cmd) -> "create provider " \o c.cmd[6]
      [] IsServiceAccountCreate(c.cmd) -> "create service account " \o c.cmd[5]
      [] IsDescribeProjectNumber(c.cmd) -> "describe number " \o c.cmd[4]
      [] IsServiceAccountIamBinding(c.cmd) -> "bind repository"
      [] OTHER -> "other"

\* The existence query of own mode found no project, and every other command
\* launched so far exited with status 0.
ProjectAbsentAllSucceeding ==
    /\ gcp_mode = "own"
    /\ \E i \in 1..Len(calls) :
         /\ IsDescribeProjectId(calls[i].cmd)
         /\ ~(/\ calls[i].result.returncode = 0
              /\ strip(calls[i].result.stdout) = gcp_project_id)
    /\ \A i \in 1..Len(calls) :
         (Launched(calls[i]) /\ ~IsDescribeProjectId(calls[i].cmd))
         => calls[i].result.returncode = 0

\* The GCP phase has returned to its caller.
GcpPhaseReturned ==
    /\ GcpSteps # <<>>
    /\ IsServiceAccountIamBinding(Last(GcpSteps).cmd)
    /\ ~Last(GcpSteps).raised

\* The account the latest gcloud auth list of the run printed.
AccountPrinted ==
    LET at == {i \in 1..Len(calls) : IsGcloudAuthList(calls[i].cmd)}
    IN  IF at = {}
        THEN None
        ELSE strip(calls[CHOOSE i \in at : \A j \in at : j <= i].result.stdout)

ExpectedOwnOrder ==
    <<"create project " \o gcp_project_id,
      "grant --role=roles/owner --member=user:" \o AccountPrinted,
      "sleep 30",
      "enable earthengine.googleapis.com",
      "enable iamcredentials.googleapis.com",
      "enable sts.googleapis.com",
      "enable cloudresourcemanager.googleapis.com",
      "create pool github-pool",
      "create provider github-provider",
      "create service account github-actions",
      "grant --role=roles/earthengine.writer --member=serviceAccount:github-actions@"
          \o gcp_project_id \o ".iam.gserviceaccount.com",
      "grant --role=roles/serviceusage.serviceUsageConsumer --member=serviceAccount:github-actions@"
          \o gcp_project_id \o ".iam.gserviceaccount.com",
      "describe number " \o gcp_project_id,
      "bind repository">>

\* C7: in own mode, the project not existing and every command succeeding, the
\* steps of the GCP phase occur in exactly the order create project, grant
\* owner to the active account, sleep 30, enable the 4 APIs, create pool,
\* create provider, create service account, grant the 2 roles, describe the
\* project number, bind the repository; the phase returns the stripped output
\* of the describe step.
C7_OwnModeOrder ==
    ProjectAbsentAllSucceeding =>
        /\ Len(GcpSteps) <= Len(ExpectedOwnOrder)
        /\ \A j \in 1..Len(GcpSteps) : Kind(GcpSteps[j]) = ExpectedOwnOrder[j]
        /\ pc \in {"own_sleep", "own_enable_api"} => Len(GcpSteps) >= 2
        /\ pc = "own_pool" => Len(GcpSteps) = 7
        /\ GcpPhaseReturned =>
              /\ Len(GcpSteps) = Len(ExpectedOwnOrder)
              /\ project_number = strip(GcpSteps[13].result.stdout)
              /\ GcpSteps[13].result.stdout = "123456789\n"
                 => project_number = "123456789"

\* The whole own-mode phase ran in the `all` command and returned the number.
C7_Witness ==
    /\ command = "all"
    /\ ProjectAbsentAllSucceeding
    /\ GcpPhaseReturned
    /\ Len(GcpSteps) = 14
    /\ project_number = "123456789"
    /\ pc = "secrets_wif"

\* C8: the GCP phase announces exactly the step numbers step_offset+1 ..
\* step_offset+8 in own mode and step_offset+1 .. step_offset+2 in shared mode,
\* and every entry point that runs the phase (all, gcp) announces them with a
\* total that counts 8 steps for own and 2 for shared.
C8_GcpPhaseStepCount ==
    LET n == IF gcp_mode = "own" THEN 8 ELSE 2
        off == IF command = "all" THEN 3 ELSE 0
        t == IF command = "all" THEN 3 + n + 2 ELSE n
    IN  command \in {"all", "gcp"} =>
            /\ \A j \in 1..Len(announced) : announced[j][2] = t
            /\ \A j \in 1..Len(GcpSteps) :
                   GcpSteps[j].via = "run_command"
                   => GcpSteps[j].step \in (off + 1)..(off + n)
            /\ GcpPhaseReturned =>
                   \A k \in (off + 1)..(off + n) :
                       \E j \in 1..Len(announced) : announced[j][1] = k

\* C9: in shared mode the body of the GCP_SERVICE_ACCOUNT secret is the fixed
\* shared account, whatever the repository, the project id and the project
\* number are, and never the per-project address.
C9_SharedSecretIsSharedAccount ==
    \A i \in 1..Len(calls) :
        (/\ gcp_mode = "shared"
         /\ IsSecretSet(calls[i].cmd)
         /\ calls[i].cmd[4] = "GCP_SERVICE_ACCOUNT")
        => /\ calls[i].cmd[7] = "--body"
           /\ calls[i].cmd[8]
                = "github-actions-rle@goog-rle-assessments.iam.gserviceaccount.com"
           /\ calls[i].cmd[8]
                # "github-actions@" \o gcp_project_id \o ".iam.gserviceaccount.com"

\* The secrets command wrote the service-account secret in shared mode.
C9_Witness ==
    /\ gcp_mode = "shared"
    /\ command = "secrets"
    /\ gcp_project_id = "p1"
    /\ calls # <<>>
    /\ IsSecretSet(Last(calls).cmd)
    /\ Last(calls).cmd[4] = "GCP_SERVICE_ACCOUNT"
    /\ Last(calls).result.returncode = 0

\* The gh secret set commands of the run, in order.
IsSecretStep(c) == IsSecretSet(c.cmd)
SecretSteps == SelectSeq(calls, IsSecretStep)

\* C10: in both modes the secrets phase launches only secret writes, at most
\* two: first the write of GCP_WORKLOAD_IDENTITY_PROVIDER with the path built
\* from the project number, then the write of GCP_SERVICE_ACCOUNT, both for
\* repository <owner>/<repo>; a successful phase launched exactly the two; when
\* the first write fails, the second secret is never written.
C10_TwoSecretsInOrder ==
    /\ Len(SecretSteps) <= 2
    /\ \A i \in 1..Len(calls) : \A j \in i..Len(calls) :
          IsSecretSet(calls[i].cmd) => IsSecretSet(calls[j].cmd)
    /\ Len(SecretSteps) >= 1 =>
          /\ SecretSteps[1].cmd[4] = "GCP_WORKLOAD_IDENTITY_PROVIDER"
          /\ SecretSteps[1].cmd[5] = "--repo"
          /\ SecretSteps[1].cmd[6] = gh_owner \o "/" \o gh_repo_name
          /\ SecretSteps[1].cmd[7] = "--body"
          /\ SecretSteps[1].cmd[8]
               = "projects/" \o project_number
                 \o "/locations/global/workloadIdentityPools/github-pool/providers/github-provider"
    /\ Len(SecretSteps) = 2 =>
          /\ SecretSteps[1].result.returncode = 0
          /\ SecretSteps[2].cmd[4] = "GCP_SERVICE_ACCOUNT"
          /\ SecretSteps[2].cmd[5] = "--repo"
          /\ SecretSteps[2].cmd[6] = gh_owner \o "/" \o gh_repo_name
    /\ (command \in {"all", "secrets"} /\ pc = "exited" /\ exit_code = 0)
          => (Len(SecretSteps) = 2 /\ SecretSteps[2].result.returncode = 0)

\* Both secrets were written in own mode and the run ended with exit code 0.
C10_Witness ==
    /\ gcp_mode = "own"
    /\ Len(SecretSteps) = 2
    /\ pc = "exited"
    /\ exit_code = 0

-----------------------------------------------------------------------------
\* The number of commands check_prerequisites launched: they are the first
\* events of the run.
PrereqCount ==
    LET n_gh == IF need_gh /\ Len(calls) >= 1 /\ IsGhAuthStatus(calls[1].cmd)
                THEN 1 ELSE 0
    IN  IF need_gcloud /\ Len(calls) >= n_gh + 1 /\ IsGcloudAuthList(calls[n_gh + 1].cmd)
        THEN n_gh + 1
        ELSE n_gh

\* The events of the phases (setup_github, setup_gcp, setup_secrets), in order.
PhaseCalls == SubSeq(calls, PrereqCount + 1, Len(calls))

\* The events of the GCP phase: every gcloud command and every sleep after
\* check_prerequisites, however it was launched.
IsGcpEvent(c) == c.via = "time.sleep" \/ c.cmd[1] = "gcloud"
GcpEvents == SelectSeq(PhaseCalls, IsGcpEvent)

\* The value of the flag --name of a command line, None when it has none.
Flag(cmd, name) ==
    LET at == {i \in 1..Len(cmd) :
                  Len(cmd[i]) > Len(name) /\ SubSeq(cmd[i], 1, Len(name) + 1) = name \o "="}
    IN  IF at = {}
        THEN None
        ELSE LET i == CHOOSE k \in at : TRUE
             IN  SubSeq(cmd[i], Len(name) + 2, Len(cmd[i]))

\* C11: in shared mode the GCP phase launches exactly two external commands:
\* first the describe of the project number of goog-rle-assessments, then one
\* IAM binding of the target repository onto the shared service account in
\* that project; it returns the number the describe printed; no create, API
\* enable, role grant on a project or sleep occurs.
C11_SharedModeTwoCommands ==
    gcp_mode = "shared" =>
        /\ Len(GcpEvents) <= 2
        /\ Len(GcpEvents) >= 1 =>
              /\ GcpEvents[1].cmd
                   = <<"gcloud", "projects", "describe", "goog-rle-assessments",
                       "--format=value(projectNumber)">>
              /\ GcpEvents[1].capture_output
        /\ Len(GcpEvents) = 2 =>
              /\ ~GcpEvents[1].raised
              /\ SubSeq(GcpEvents[2].cmd, 1, 4)
                   = <<"gcloud", "iam", "service-accounts", "add-iam-policy-binding">>
              /\ GcpEvents[2].cmd[5]
                   = "github-actions-rle@goog-rle-assessments.iam.gserviceaccount.com"
              /\ Flag(GcpEvents[2].cmd, "--project") = "goog-rle-assessments"
              /\ Flag(GcpEvents[2].cmd, "--role") = "roles/iam.workloadIdentityUser"
              /\ Contains(Flag(GcpEvents[2].cmd, "--member"),
                          "/attribute.repository/" \o gh_owner \o "/" \o gh_repo_name)
        /\ \A i \in 1..Len(PhaseCalls) :
              /\ PhaseCalls[i].via # "time.sleep"
              /\ Creates(PhaseCalls[i].cmd) \notin {"project", "pool", "provider", "service_account"}
              /\ ~IsServicesEnable(PhaseCalls[i].cmd)
              /\ ~IsProjectIamBinding(PhaseCalls[i].cmd)
              /\ ~IsConfigSetProject(PhaseCalls[i].cmd)
        /\ (pc \in {"secrets_wif", "secrets_sa", "return"} \/ (pc = "exited" /\ exit_code = 0))
              => (command \in {"all", "gcp"} =>
                    /\ Len(GcpEvents) = 2
                    /\ ~GcpEvents[2].raised
                    /\ project_number = strip(GcpEvents[1].result.stdout))

\* The shared phase of the gcp command returned the number 123456789.
C11_Witness ==
    /\ gcp_mode = "shared"
    /\ command = "gcp"
    /\ Len(GcpEvents) = 2
    /\ GcpEvents[2].result.returncode = 0
    /\ project_number = "123456789"
    /\ gcp_project_id = "p1"
    /\ pc = "return"

-----------------------------------------------------------------------------
\* The command exited with status 0 or was skipped as already existing.
SucceededOrSkipped(c) ==
    \/ c.result.returncode = 0
    \/ c.via = "run_command" /\ c.skip_if_exists /\ HasMarker(c.errtext)

\* C12: whenever an external command is launched, every command launched
\* earlier in the run, existence queries aside, exited with status 0 or was
\* skipped as already existing; this includes the commands of own mode that
\* set the default project and read the active account.
C12_EarlierCommandsSucceeded ==
    \A j \in 1..Len(calls) : \A i \in 1..(j - 1) :
        (Launched(calls[j]) /\ Launched(calls[i]) /\ Queries(calls[i].cmd) = None)
        => SucceededOrSkipped(calls[i])

-----------------------------------------------------------------------------
\* check_prerequisites returned normally: every required tool is installed
\* and its authentication check passed.
PrerequisitesPassed ==
    LET n_gh == IF need_gh THEN 1 ELSE 0
    IN  /\ need_gh =>
              /\ "gh" \in which
              /\ Len(calls) >= 1
              /\ calls[1].cmd = <<"gh", "auth", "status">>
              /\ calls[1].result.returncode = 0
        /\ need_gcloud =>
              /\ "gcloud" \in which
              /\ Len(calls) >= n_gh + 1
              /\ SubSeq(calls[n_gh + 1].cmd, 1, 3) = <<"gcloud", "auth", "list">>
              /\ calls[n_gh + 1].result.returncode = 0
              /\ strip(calls[n_gh + 1].result.stdout) # ""

\* C13: a missing or unauthenticated required tool ends the command with exit
\* code 1 before any provisioning command is launched: the phases launch
\* commands only after check_prerequisites returned normally, a failed check
\* is followed by no command at all (no login, no recovery), the only
\* commands of check_prerequisites are gh auth status and gcloud auth list,
\* and no command of a required tool that is not installed is launched.
C13_PrerequisitesFirst ==
    /\ PhaseCalls # <<>> => PrerequisitesPassed
    /\ announced # <<>> => PrerequisitesPassed
    /\ PrerequisiteFailed =>
          /\ PhaseCalls = <<>>
          /\ Len(calls) <= 2
          /\ \A i \in 1..Len(calls) :
                /\ calls[i].cmd \in {<<"gh", "auth", "status">>,
                                     <<"gcloud", "auth", "list", "--filter=status:ACTIVE",
                                       "--format=value(account)">>}
                /\ i < Len(calls) => calls[i].result.returncode = 0
          /\ pc \in {"prereq_gh", "prereq_gh_auth", "prereq_gcloud", "prereq_gcloud_auth",
                      "exited"}
          /\ pc = "exited" => exit_code = 1
    /\ (need_gh /\ "gh" \notin which) =>
          (calls = <<>> /\ pc \in {"prereq_gh", "exited"})
    /\ (need_gcloud /\ "gcloud" \notin which) =>
          \A i \in 1..Len(calls) : calls[i].cmd[1] # "gcloud"
    /\ \A i \in 1..Len(calls) : \A j \in 1..Len(calls[i].cmd) :
          calls[i].cmd[j] # "login"

\* gcloud auth list exited 0 without an active account in the `all` command:
\* the run ended with exit code 1 after the two checks.
C13_Witness ==
    /\ command = "all"
    /\ Len(calls) = 2
    /\ calls[1].result.returncode = 0
    /\ IsGcloudAuthList(calls[2].cmd)
    /\ calls[2].result.returncode = 0
    /\ strip(calls[2].result.stdout) = ""
    /\ Aborted

-----------------------------------------------------------------------------
\* The value captured from the latest describe-project-number step of the
\* run: result.stdout.strip(); None when no such step returned.
CapturedNumber ==
    LET at == {i \in 1..Len(calls) :
                  /\ calls[i].via = "run_command"
                  /\ SubSeq(calls[i].cmd, 1, 3) = <<"gcloud", "projects", "describe">>
                  /\ calls[i].cmd[5] = "--format=value(projectNumber)"
                  /\ ~calls[i].raised}
    IN  IF at = {}
        THEN None
        ELSE strip(calls[CHOOSE i \in at : \A j \in at : j <= i].result.stdout)

\* C14: the project number is chained forward unchanged: in both modes the
\* member of the repository binding is principalSet://iam.googleapis.com/
\* projects/<N>/locations/global/workloadIdentityPools/github-pool/
\* attribute.repository/<owner>/<repo> with N the value captured from the
\* describe-project-number step of the same run, the GCP phase returns that
\* N, and in the `all` command the GCP_WORKLOAD_IDENTITY_PROVIDER secret is
\* built from that N.
C14_ProjectNumberChained ==
    /\ \A i \in 1..Len(calls) :
          IsServiceAccountIamBinding(calls[i].cmd) =>
              /\ CapturedNumber # None
              /\ Flag(calls[i].cmd, "--member")
                   = "principalSet://iam.googleapis.com/projects/" \o CapturedNumber
                     \o "/locations/global/workloadIdentityPools/github-pool/attribute.repository/"
                     \o gh_owner \o "/" \o gh_repo_name
    /\ (GcpEvents # <<>> /\ GcpPhaseReturned) => project_number = CapturedNumber
    /\ command = "all" =>
          \A i \in 1..Len(calls) :
              (IsSecretSet(calls[i].cmd) /\ calls[i].cmd[4] = "GCP_WORKLOAD_IDENTITY_PROVIDER")
              => /\ CapturedNumber # None
                 /\ calls[i].cmd[8]
                      = "projects/" \o CapturedNumber
                        \o "/locations/global/workloadIdentityPools/github-pool/providers/github-provider"

\* The `all` command wrote the provider secret from the number 123456789 the
\* own-mode describe step printed.
C14_Witness ==
    /\ command = "all"
    /\ gcp_mode = "own"
    /\ CapturedNumber = "123456789"
    /\ \E i \in 1..Len(calls) : IsServiceAccountIamBinding(calls[i].cmd)
    /\ calls # <<>>
    /\ IsSecretSet(Last(calls).cmd)
    /\ Last(calls).cmd[4] = "GCP_WORKLOAD_IDENTITY_PROVIDER"
    /\ Last(calls).result.returncode = 0

-----------------------------------------------------------------------------
\* The events of setup_github: the gh commands of the phases other than the
\* secret writes.
IsGithubEvent(c) == c.cmd[1] = "gh" /\ ~IsSecretSet(c.cmd)
GithubEvents == SelectSeq(PhaseCalls, IsGithubEvent)

\* What a command of setup_github does, read from its command line.
GithubKind(c) ==
    CASE SubSeq(c.cmd, 1, 3) = <<"gh", "repo", "view">> -> "view " \o c.cmd[4]
      [] SubSeq(c.cmd, 1, 3) = <<"gh", "repo", "create">> -> "create " \o c.cmd[4] \o " " \o c.cmd[5]
      [] SubSeq(c.cmd, 1, 2) = <<"gh", "api">> -> c.cmd[5] \o " " \o c.cmd[3]
      [] OTHER -> "other"

ExpectedGithubOrder(absent) ==
    <<"view " \o gh_owner \o "/" \o gh_repo_name>>
    \o (IF absent
        THEN <<"create " \o gh_repo_name
                 \o " --template=RLE-Assessment/TEMPLATE-rle-assessment">>
        ELSE <<>>)
    \o <<"PUT repos/" \o gh_owner \o "/" \o gh_repo_name \o "/environments/github-pages",
          "POST repos/" \o gh_owner \o "/" \o gh_repo_name
              \o "/environments/github-pages/deployment-branch-policies">>

\* setup_github has returned to its caller.
GithubPhaseReturned ==
    /\ GithubEvents # <<>>
    /\ GithubKind(Last(GithubEvents))
         = "POST repos/" \o gh_owner \o "/" \o gh_repo_name
           \o "/environments/github-pages/deployment-branch-policies"
    /\ ~Last(GithubEvents).raised

\* C15: setup_github issues the repository-create command from the template
\* if and only if the preceding repo view exited non-zero; in both cases it
\* then configures the github-pages environment and afterwards adds main as
\* deployment branch, in that order: a successful phase launched 4 commands
\* when the repository is absent and 3, none of them a create, when it exists.
C15_CreateIffViewFailed ==
    GithubEvents # <<>> =>
        LET absent == GithubEvents[1].result.returncode # 0
            expected == ExpectedGithubOrder(absent)
        IN  /\ Len(GithubEvents) <= Len(expected)
            /\ \A j \in 1..Len(GithubEvents) : GithubKind(GithubEvents[j]) = expected[j]
            /\ \A j \in 2..Len(GithubEvents) : ~GithubEvents[j - 1].raised
            /\ pc \in {"github_pages_env", "github_deploy_branch"} =>
                   Len(GithubEvents) >= Len(expected) - 2
            /\ GithubPhaseReturned =>
                   /\ Len(GithubEvents) = (IF absent THEN 4 ELSE 3)
                   /\ (\E j \in 1..Len(GithubEvents) :
                          SubSeq(GithubEvents[j].cmd, 1, 3) = <<"gh", "repo", "create">>)
                      <=> absent
                   /\ GithubEvents[Len(GithubEvents)].cmd[7] = "name=main"

\* The repository was absent: the github command launched 4 commands and
\* ended with exit code 0.
C15_Witness ==
    /\ command = "github"
    /\ GithubPhaseReturned
    /\ Len(GithubEvents) = 4
    /\ pc = "exited"
    /\ exit_code = 0

\* The repository existed: setup_github of the `all` command returned after 3
\* commands.
C15_WitnessExisting ==
    /\ command = "all"
    /\ GithubPhaseReturned
    /\ Len(GithubEvents) = 3
    /\ GithubEvents[1].result.returncode = 0

-----------------------------------------------------------------------------
\* Drop the first element of a sequence.
Rest(q) == SubSeq(q, 2, Len(q))

\* The existence query of own mode exited 0 and printed the requested id.
ProjectFound ==
    /\ gcp_mode = "own"
    /\ GcpEvents # <<>>
    /\ GcpEvents[1].result.returncode = 0
    /\ strip(GcpEvents[1].result.stdout) = gcp_project_id

\* C16: in own mode the project-create command is issued if and only if the
\* existence query did not both exit 0 and print the requested project id;
\* when the project is found to exist no projects create is launched anywhere
\* in the run, the project is set as the default project instead, and the
\* later steps, owner grant through repository binding, still run in order
\* and the project number is returned.
C16_CreateIffProjectAbsent ==
    (gcp_mode = "own" /\ GcpEvents # <<>>) =>
        /\ GcpEvents[1].cmd
             = <<"gcloud", "projects", "describe", gcp_project_id, "--format=value(projectId)">>
        /\ Len(GcpEvents) >= 2 =>
              /\ SubSeq(GcpEvents[2].cmd, 1, 4)
                    = <<"gcloud", "projects", "create", gcp_project_id>>
                 <=> ~ProjectFound
              /\ GcpEvents[2].cmd = <<"gcloud", "config", "set", "project", gcp_project_id>>
                 <=> ProjectFound
        /\ pc = "own_create" <=> (Len(GcpEvents) = 1 /\ ~ProjectFound)
        /\ pc = "own_config_set" <=> (Len(GcpEvents) = 1 /\ ProjectFound)
        /\ ProjectFound =>
              /\ \A i \in 1..Len(calls) :
                    ~IsProjectsCreate(calls[i].cmd)
              /\ Len(GcpSteps) <= 13
              /\ \A j \in 1..Len(GcpSteps) :
                    Kind(GcpSteps[j]) = Rest(ExpectedOwnOrder)[j]
              /\ GcpPhaseReturned =>
                    /\ Len(GcpSteps) = 13
                    /\ project_number = CapturedNumber

\* The project existed: the phase of the gcp command ran without a create
\* and returned the number 123456789.
C16_Witness ==
    /\ command = "gcp"
    /\ ProjectFound
    /\ GcpPhaseReturned
    /\ project_number = "123456789"
    /\ pc = "return"

\* The query exited 0 and printed another id: the create was issued.
C16_WitnessOtherId ==
    /\ gcp_mode = "own"
    /\ Len(GcpEvents) >= 2
    /\ GcpEvents[1].result.returncode = 0
    /\ GcpEvents[1].result.stdout = "another-project\n"
    /\ IsProjectsCreate(GcpEvents[2].cmd)

-----------------------------------------------------------------------------
\* The creation of the pool, the provider or the service account.
IsReactiveCreation(c) ==
    /\ c.via = "run_command"
    /\ Len(c.cmd) >= 5
    /\ c.cmd[1] = "gcloud" /\ c.cmd[2] = "iam"
    /\ \/ SubSeq(c.cmd, 3, 4) = <<"workload-identity-pools", "create">>
       \/ SubSeq(c.cmd, 3, 5) = <<"workload-identity-pools", "providers", "create-oidc">>
       \/ SubSeq(c.cmd, 3, 4) = <<"service-accounts", "create">>

\* The process of the step exited non-zero saying the resource exists.
FailedAlreadyExisting(c) == c.result.returncode # 0 /\ HasMarker(c.errtext)

\* The creations of the run that failed with an already-exists error.
SkippedCreations ==
    {Kind(calls[i]) : i \in {k \in 1..Len(calls) :
        IsReactiveCreation(calls[k]) /\ FailedAlreadyExisting(calls[k])}}

\* Own mode, every command launched so far exited with status 0, but for the
\* existence query and for the pool, provider and service-account creations
\* that failed with an already-exists error.
OwnAllSucceededOrExisting ==
    /\ gcp_mode = "own"
    /\ GcpEvents # <<>>
    /\ \A i \in 1..Len(calls) :
         (Launched(calls[i]) /\ ~IsDescribeProjectId(calls[i].cmd))
         => \/ calls[i].result.returncode = 0
            \/ IsReactiveCreation(calls[i]) /\ FailedAlreadyExisting(calls[i])

\* C17: a skipped step counts as success downstream: in own mode, whichever
\* of the pool, provider and service-account creations fail with an
\* already-exists error, the run goes on after each of them, the steps of the
\* phase are the same commands in the same order as when the creations
\* succeed, and the phase returns the number its describe step captured.
C17_SkipEqualsSuccess ==
    OwnAllSucceededOrExisting =>
        LET expected == IF ProjectFound THEN Rest(ExpectedOwnOrder) ELSE ExpectedOwnOrder
        IN  /\ ~Aborted
            /\ \A i \in 1..Len(calls) : ~calls[i].raised
            /\ Len(GcpSteps) <= Len(expected)
            /\ \A j \in 1..Len(GcpSteps) : Kind(GcpSteps[j]) = expected[j]
            /\ pc = "own_provider" <=> Kind(Last(calls)) = "create pool github-pool"
            /\ pc = "own_service_account"
                  <=> Kind(Last(calls)) = "create provider github-provider"
            /\ pc = "own_role_1"
                  <=> Kind(Last(calls)) = "create service account github-actions"
            /\ GcpPhaseReturned =>
                  /\ Len(GcpSteps) = Len(expected)
                  /\ project_number = CapturedNumber
            /\ command = "all" =>
                  \A i \in 1..Len(calls) :
                      IsSecretSet(calls[i].cmd) => calls[i].cmd[8]
                          \in {"projects/" \o CapturedNumber
                                  \o "/locations/global/workloadIdentityPools/github-pool/providers/github-provider",
                               "github-actions@" \o gcp_project_id \o ".iam.gserviceaccount.com"}

\* All three creations failed with an already-exists error and the phase of
\* the `all` command returned the number 123456789.
C17_Witness ==
    /\ command = "all"
    /\ OwnAllSucceededOrExisting
    /\ Cardinality(SkippedCreations) = 3
    /\ GcpPhaseReturned
    /\ project_number = "123456789"
    /\ pc = "return" \/ (pc = "exited" /\ exit_code = 0)

\* Only the provider creation failed so.
C17_WitnessOne ==
    /\ OwnAllSucceededOrExisting
    /\ SkippedCreations = {"create provider github-provider"}
    /\ GcpPhaseReturned

-----------------------------------------------------------------------------
\* The creation steps of the GitHub and GCP phases, read from the command
\* line: the resource the step creates, None for any other command.
CreationStep(c) ==
    CASE c.via # "run_command" -> None
      [] SubSeq(c.cmd, 1, 3) = <<"gh", "repo", "create">> -> "repository"
      [] c.cmd[1] = "gh" /\ c.cmd[2] = "api" /\ c.cmd[5] = "PUT" -> "github-pages environment"
      [] c.cmd[1] = "gh" /\ c.cmd[2] = "api" /\ c.cmd[5] = "POST" -> "deployment-branch policy"
      [] SubSeq(c.cmd, 1, 3) = <<"gcloud", "projects", "create">> -> "project"
      [] SubSeq(c.cmd, 1, 4) = <<"gcloud", "iam", "workload-identity-pools", "create">>
            -> "identity pool"
      [] SubSeq(c.cmd, 1, 5)
            = <<"gcloud", "iam", "workload-identity-pools", "providers", "create-oidc">>
            -> "OIDC provider"
      [] SubSeq(c.cmd, 1, 4) = <<"gcloud", "iam", "service-accounts", "create">>
            -> "service account"
      [] OTHER -> None

\* The existence query that decides whether the creation is issued: it is the
\* event just before the creation and reported that the resource is absent.
DecidedByQuery(i) ==
    /\ i > 1
    /\ calls[i - 1].via = "subprocess.run"
    /\ \/ /\ CreationStep(calls[i]) = "repository"
          /\ SubSeq(calls[i - 1].cmd, 1, 3) = <<"gh", "repo", "view">>
          /\ calls[i - 1].result.returncode # 0
       \/ /\ CreationStep(calls[i]) = "project"
          /\ SubSeq(calls[i - 1].cmd, 1, 3) = <<"gcloud", "projects", "describe">>
          /\ ~(/\ calls[i - 1].result.returncode = 0
               /\ strip(calls[i - 1].result.stdout) = calls[i].cmd[4])

\* The creation step at place i of the run is protected by one of the two
\* idempotency mechanisms.
Protected(i) == DecidedByQuery(i) \/ calls[i].skip_if_exists

\* C18: every creation step of the GitHub and GCP phases (repository,
\* github-pages environment, main deployment-branch policy, project, identity
\* pool, OIDC provider, service account) is protected by one of the two
\* idempotency mechanisms: an existence query decides whether the create is
\* issued, or the create runs with skip_if_exists.
C18_EveryCreationProtected ==
    \A i \in 1..Len(calls) : CreationStep(calls[i]) # None => Protected(i)

-----------------------------------------------------------------------------
\* The github-pages environment step of setup_github.
IsPagesEnvStep(c) ==
    /\ c.via = "run_command"
    /\ c.cmd = <<"gh", "api",
                 "repos/" \o gh_owner \o "/" \o gh_repo_name \o "/environments/github-pages",
                 "-X", "PUT", "--input", "-">>

\* C19: the stdin payload given to run_command reaches the external process
\* unchanged, and the only step that sends one is the github-pages
\* environment step, whose payload is the same JSON for every input:
\* deployment_branch_policy with protected_branches false and
\* custom_branch_policies true; every other step runs with no stdin payload.
C19_StdinPayload ==
    \A i \in 1..Len(calls) :
        Launched(calls[i]) =>
            /\ calls[i].stdin = calls[i].input
            /\ IF IsPagesEnvStep(calls[i])
               THEN calls[i].stdin
                      = "{\"deployment_branch_policy\": {\"protected_branches\": false, "
                        \o "\"custom_branch_policies\": true}}"
               ELSE calls[i].input = None /\ calls[i].stdin = None

\* The environment step ran for the repository acme/rle-ruritania, and a
\* later step ran without payload.
C19_Witness ==
    /\ gh_owner = "acme"
    /\ \E i \in 1..Len(calls) :
         /\ IsPagesEnvStep(calls[i])
         /\ calls[i].stdin # None
         /\ calls[i].result.returncode = 0
         /\ i < Len(calls)

-----------------------------------------------------------------------------
\* The places in ee_calls of the calls of the function fn.
CallsOf(fn) == {i \in 1..Len(ee_calls) : ee_calls[i].fn = fn}

\* The lookup of the asset returned: the asset exists.
LookupSucceeded ==
    \E i \in CallsOf("ee.data.getAsset") : ~ee_calls[i].raised

\* C20: upload_demo_asset is create-or-skip: the lookup is made for
\* projects/<project>/assets/demo/null_island_ecosystems; when it succeeds the
\* script returns without creating the folder and without starting an export
\* task; an export task is started at most once per call and only after the
\* lookup raised an error; a failure to create the demo folder never
\* prevents the export from starting.
C20_CreateOrSkip ==
    /\ Cardinality(CallsOf("ee.data.getAsset")) <= 1
    /\ \A i \in CallsOf("ee.data.getAsset") :
          ee_calls[i].arg = "projects/" \o project \o "/assets/demo/null_island_ecosystems"
    /\ LookupSucceeded =>
          /\ CallsOf("ee.data.createAsset") = {}
          /\ CallsOf("task.start") = {}
          /\ ee_calls[Len(ee_calls)].fn = "ee.data.getAsset"
          /\ task.state = "UNSUBMITTED"
          /\ sleeps = 0
          /\ upload_pc = "exited" /\ upload_exit = 0
    /\ Cardinality(CallsOf("task.start")) <= 1
    /\ \A j \in CallsOf("task.start") :
          /\ \E i \in CallsOf("ee.data.getAsset") : i < j /\ ee_calls[i].raised
          /\ ee_calls[j].arg = "projects/" \o project \o "/assets/demo/null_island_ecosystems"
    /\ task.state # "UNSUBMITTED" =>
          \E j \in CallsOf("task.start") : ~ee_calls[j].raised
    /\ \A i \in CallsOf("ee.data.createAsset") :
          /\ ee_calls[i].arg = "projects/" \o project \o "/assets/demo"
          /\ i > 1 /\ ee_calls[i - 1].fn = "ee.data.getAsset" /\ ee_calls[i - 1].raised
          /\ IF i = Len(ee_calls)
             THEN upload_pc = "export" /\ upload_exit = -1
             ELSE ee_calls[i + 1].fn = "task.start"

\* The folder could not be created, and the export task was started for the
\* project of the environment variable.
C20_Witness ==
    /\ project = "env-project"
    /\ \E i \in CallsOf("ee.data.createAsset") : ee_calls[i].raised
    /\ \E j \in CallsOf("task.start") : ~ee_calls[j].raised
    /\ task.state = "COMPLETED"
    /\ upload_exit = 0

\* The asset exists: the script returned after the lookup.
C20_WitnessExists ==
    /\ LookupSucceeded
    /\ printed = <<"Asset already exists: projects/cli-project/assets/demo/null_island_ecosystems">>
    /\ upload_exit = 0

-----------------------------------------------------------------------------
\* The places in calls of the sleeps, of the owner grant and of the API
\* enable commands.
SleepAt == {i \in 1..Len(calls) : calls[i].via = "time.sleep"}
OwnerGrantAt ==
    {i \in 1..Len(calls) :
        /\ IsProjectIamBinding(calls[i].cmd)
        /\ calls[i].cmd[6] = "--role=roles/owner"}
ApiEnableAt == {i \in 1..Len(calls) : IsServicesEnable(calls[i].cmd)}

\* C21: the 30-second delay happens exactly once per own-mode GCP phase,
\* just after the owner grant succeeded and before the first API-enable
\* command, whether the project was created or already existed; it never
\* happens in shared mode, in the GitHub phase or in the secrets phase, and
\* not at all when the owner grant fails.
C21_SleepOnceAfterOwnerGrant ==
    /\ Cardinality(SleepAt) <= 1
    /\ \A i \in SleepAt :
          /\ calls[i].cmd = <<"30">>
          /\ gcp_mode = "own"
          /\ command \in {"all", "gcp"}
          /\ i - 1 \in OwnerGrantAt
          /\ calls[i - 1].result.returncode = 0
          /\ \A j \in 1..Len(calls) :
                /\ (calls[j].cmd[1] = "gh" /\ IsSecretSet(calls[j].cmd)) => i < j
                /\ (calls[j].cmd[1] = "gh" /\ ~IsSecretSet(calls[j].cmd)) => j < i
    /\ \A j \in ApiEnableAt : \E i \in SleepAt : i < j
    /\ \A g \in OwnerGrantAt :
          IF calls[g].result.returncode = 0
          THEN (g = Len(calls) /\ pc = "own_sleep") \/ (g + 1 \in SleepAt)
          ELSE SleepAt = {} /\ Aborted
    /\ (gcp_mode = "own" /\ GcpPhaseReturned) => Cardinality(SleepAt) = 1
    /\ (gcp_mode = "shared" \/ command \in {"github", "secrets"}) => SleepAt = {}

\* The project already existed and the phase slept once before the first
\* API-enable command.
C21_Witness ==
    /\ ProjectFound
    /\ Cardinality(SleepAt) = 1
    /\ ApiEnableAt # {}
    /\ GcpPhaseReturned

\* The owner grant failed and the run ended without a sleep.
C21_WitnessGrantFailed ==
    /\ \E g \in OwnerGrantAt : calls[g].result.returncode # 0
    /\ SleepAt = {}
    /\ Aborted

-----------------------------------------------------------------------------
\* The launched commands of the run, in order, and the places of calls where
\* _setup_gcp_own reads the active account again (line 332).
LaunchedAt == {i \in 1..Len(calls) : Launched(calls[i])}
AccountRereadAt ==
    {i \in LaunchedAt :
        /\ i > PrereqCount
        /\ calls[i].cmd = <<"gcloud", "auth", "list", "--filter=status:ACTIVE",
                            "--format=value(account)">>}

\* C22 as stated: within one run every external command (same tool, same
\* arguments) is launched at most once, whatever its outcome; a failed
\* command is never re-issued and the four API-enable commands each name a
\* distinct API.
C22_NoCommandLaunchedTwice ==
    /\ \A i \in LaunchedAt : \A j \in LaunchedAt :
          calls[i].cmd = calls[j].cmd => i = j
    /\ \A i \in ApiEnableAt : \A j \in ApiEnableAt :
          calls[i].cmd[4] = calls[j].cmd[4] => i = j

\* C22 amended: there are no retries: a command that failed is never launched
\* again in the run, and every command is launched at most once but for the
\* account query gcloud auth list, which own mode launches a second time
\* after check_prerequisites launched it and it exited 0; the API-enable
\* commands each name a distinct API, four of them in a phase that returned.
C22_NoRetries ==
    /\ \A i \in LaunchedAt : \A j \in LaunchedAt :
          (i < j /\ calls[i].cmd = calls[j].cmd)
          => /\ calls[i].result.returncode = 0
             /\ i <= PrereqCount
             /\ j \in AccountRereadAt
             /\ gcp_mode = "own"
    /\ Cardinality(AccountRereadAt) <= 1
    /\ \A i \in ApiEnableAt : \A j \in ApiEnableAt :
          calls[i].cmd[4] = calls[j].cmd[4] => i = j
    /\ (gcp_mode = "own" /\ GcpPhaseReturned) =>
          {calls[i].cmd[4] : i \in ApiEnableAt}
            = {"earthengine.googleapis.com", "iamcredentials.googleapis.com",
               "sts.googleapis.com", "cloudresourcemanager.googleapis.com"}

\* An own-mode run launched the account query twice, and later failed at an
\* API-enable command that it did not launch again.
C22_Witness ==
    /\ gcp_mode = "own"
    /\ AccountRereadAt # {}
    /\ Cardinality(ApiEnableAt) = 3
    /\ Last(calls).result.returncode # 0
    /\ Aborted

-----------------------------------------------------------------------------
\* A non-empty string of decimal digits.
IsNumber(s) ==
    /\ s # None
    /\ Len(s) > 0
    /\ \A i \in 1..Len(s) :
          SubSeq(s, i, i) \in {"0", "1", "2", "3", "4", "5", "6", "7", "8", "9"}

\* C23: whenever the GCP phase completes normally, in either mode, it has
\* produced a project number: the value it returns is the non-empty numeric
\* output of the describe-project-number step, so that the repository binding
\* and, in `all`, the secrets phase never run with an empty project number.
C23_ProjectNumberNonEmpty ==
    command \in {"all", "gcp"} =>
        /\ GcpPhaseReturned =>
              (IsNumber(project_number) /\ project_number = CapturedNumber)
        /\ \A i \in 1..Len(calls) :
              IsServiceAccountIamBinding(calls[i].cmd) => IsNumber(CapturedNumber)
        /\ \A i \in 1..Len(calls) :
              IsSecretSet(calls[i].cmd) => IsNumber(project_number)

-----------------------------------------------------------------------------
\* The places in calls of the two checks of check_prerequisites.
GhCheckAt ==
    {i \in 1..Len(calls) : calls[i].cmd = <<"gh", "auth", "status">>}
GcloudCheckAt ==
    {i \in 1..PrereqCount :
        calls[i].cmd = <<"gcloud", "auth", "list", "--filter=status:ACTIVE",
                         "--format=value(account)">>}

\* check_prerequisites is over and the command went on to its phases.
PastPrerequisites ==
    pc \notin {"prereq_gh", "prereq_gh_auth", "prereq_gcloud", "prereq_gcloud_auth"}
    /\ ~(pc = "exited" /\ PhaseCalls = <<>> /\ announced = <<>> /\ exit_code = 1)

\* C24: check_prerequisites takes gcloud as authenticated only when the
\* account query both exits 0 and prints a non-empty active account: exit 0
\* with empty output ends the run with exit code 1; for gh an exit 0 of gh
\* auth status alone suffices.  Only the tools requested are examined (the
\* gcp command launches no gh command; github and secrets launch no gcloud
\* command), and gh is always checked before gcloud.
C24_PrerequisiteChecks ==
    /\ Cardinality(GhCheckAt) <= 1 /\ Cardinality(GcloudCheckAt) <= 1
    /\ \A i \in GcloudCheckAt :
          IF calls[i].result.returncode = 0 /\ strip(calls[i].result.stdout) # ""
          THEN i = Len(calls) => (pc # "exited" /\ exit_code = -1)
          ELSE i = Len(calls) /\ Aborted
    /\ \A i \in GhCheckAt :
          IF calls[i].result.returncode = 0
          THEN i = Len(calls) =>
                  \/ pc # "exited" /\ exit_code = -1
                  \/ command = "all" /\ "gcloud" \notin which /\ Aborted
          ELSE i = Len(calls) /\ Aborted
    /\ (PastPrerequisites /\ command \in {"all", "gcp"}) =>
          \E i \in GcloudCheckAt :
              calls[i].result.returncode = 0 /\ strip(calls[i].result.stdout) # ""
    /\ (PastPrerequisites /\ command \in {"all", "github", "secrets"}) =>
          \E i \in GhCheckAt : calls[i].result.returncode = 0
    /\ command = "gcp" =>
          (GhCheckAt = {} /\ \A i \in 1..Len(calls) : calls[i].cmd[1] # "gh")
    /\ command \in {"github", "secrets"} =>
          (GcloudCheckAt = {} /\ \A i \in 1..Len(calls) : calls[i].cmd[1] # "gcloud")
    /\ command = "all" =>
          /\ \A i \in GhCheckAt : i = 1
          /\ \A j \in GcloudCheckAt : j = 2 /\ 1 \in GhCheckAt
          /\ pc \in {"prereq_gcloud", "prereq_gcloud_auth"} =>
                (1 \in GhCheckAt /\ calls[1].result.returncode = 0)
          /\ "gh" \notin which => calls = <<>>

\* In the gcp command the account query exited 0 with an empty output and the
\* run ended with exit code 1.
C24_Witness ==
    /\ command = "gcp"
    /\ Len(calls) = 1
    /\ 1 \in GcloudCheckAt
    /\ calls[1].result.returncode = 0
    /\ calls[1].result.stdout = ""
    /\ Aborted

\* In the github command gh auth status exited 0, printing nothing, and the
\* command went on.
C24_WitnessGh ==
    /\ command = "github"
    /\ 1 \in GhCheckAt
    /\ calls[1].result.returncode = 0
    /\ calls[1].result.stdout = ""
    /\ Len(calls) >= 2

-----------------------------------------------------------------------------
\* The places in calls of the repository binding and of the write of the
\* GCP_SERVICE_ACCOUNT secret.
BindingAt == {i \in 1..Len(calls) : IsServiceAccountIamBinding(calls[i].cmd)}
AccountSecretAt ==
    {i \in 1..Len(calls) :
        IsSecretSet(calls[i].cmd) /\ calls[i].cmd[4] = "GCP_SERVICE_ACCOUNT"}

\* C25: in an `all` run the email published as the GCP_SERVICE_ACCOUNT secret
\* is the service account onto which the GCP phase of the same run bound the
\* repository: github-actions@<gcp_project_id>.iam.gserviceaccount.com in own
\* mode, which is also the account that was created and granted the two
\* roles, and the shared account in shared mode.
C25_SecretAccountIsBoundAccount ==
    command = "all" =>
        /\ \A s \in AccountSecretAt :
              /\ \E b \in BindingAt :
                    /\ b < s
                    /\ calls[b].cmd[5] = calls[s].cmd[8]
                    /\ SucceededOrSkipped(calls[b])
              /\ calls[s].cmd[8]
                   = (IF gcp_mode = "own"
                      THEN "github-actions@" \o gcp_project_id \o ".iam.gserviceaccount.com"
                      ELSE "github-actions-rle@goog-rle-assessments.iam.gserviceaccount.com")
        /\ Cardinality(BindingAt) <= 1
        /\ gcp_mode = "own" =>
              \A b \in BindingAt :
                  /\ calls[b].cmd[5]
                       = "github-actions@" \o gcp_project_id \o ".iam.gserviceaccount.com"
                  /\ Flag(calls[b].cmd, "--project") = gcp_project_id
                  /\ \E c \in 1..(b - 1) :
                        /\ IsServiceAccountCreate(calls[c].cmd)
                        /\ calls[c].cmd[5] \o "@" \o Flag(calls[c].cmd, "--project")
                              \o ".iam.gserviceaccount.com" = calls[b].cmd[5]
                  /\ \A role \in {"roles/earthengine.writer",
                                   "roles/serviceusage.serviceUsageConsumer"} :
                        \E g \in 1..(b - 1) :
                            /\ IsProjectIamBinding(calls[g].cmd)
                            /\ calls[g].cmd[4] = gcp_project_id
                            /\ Flag(calls[g].cmd, "--role") = role
                            /\ Flag(calls[g].cmd, "--member")
                                 = "serviceAccount:" \o calls[b].cmd[5]
        /\ (pc = "exited" /\ exit_code = 0) => AccountSecretAt # {}

\* An own-mode `all` run completed for the project p1.
C25_Witness ==
    /\ command = "all"
    /\ gcp_mode = "own"
    /\ gcp_project_id = "p1"
    /\ AccountSecretAt # {}
    /\ pc = "exited"
    /\ exit_code = 0

\* A shared-mode `all` run completed.
C25_WitnessShared ==
    /\ command = "all"
    /\ gcp_mode = "shared"
    /\ AccountSecretAt # {}
    /\ pc = "exited"
    /\ exit_code = 0

-----------------------------------------------------------------------------
\* The phase a run_command step belongs to, read from its command line.
PhaseOf(c) ==
    IF c.cmd[1] = "gcloud" THEN "gcp"
    ELSE IF c.cmd[2] = "secret" THEN "secrets"
    ELSE "github"

\* The step numbers the claim gives each phase of a command.
StepRange(phase) ==
    LET n == IF gcp_mode = "own" THEN 8 ELSE 2
    IN  IF command = "all"
        THEN CASE phase = "github" -> 1..3
               [] phase = "gcp" -> 4..(3 + n)
               [] phase = "secrets" -> (3 + n + 1)..(3 + n + 2)
        ELSE CASE phase = "github" -> 1..3
               [] phase = "gcp" -> 1..n
               [] phase = "secrets" -> 1..2

\* C26: in every command and both modes every announced step has a number k
\* with 1 <= k <= total, step numbers never decrease during a run, and a run
\* that completes announced step number total as its last step; for `all`
\* total is 3 + (8 in own mode, 2 in shared mode) + 2 and the three phases
\* occupy consecutive, non-overlapping ranges of numbers.
C26_StepNumbersWithinTotal ==
    /\ \A j \in 1..Len(announced) :
          /\ 1 <= announced[j][1]
          /\ announced[j][1] <= announced[j][2]
          /\ j > 1 => announced[j - 1][1] <= announced[j][1]
          /\ j > 1 => announced[j - 1][2] = announced[j][2]
          /\ command = "all" =>
                announced[j][2] = 3 + (IF gcp_mode = "own" THEN 8 ELSE 2) + 2
    /\ (pc = "exited" /\ exit_code = 0) =>
          /\ announced # <<>>
          /\ Last(announced)[1] = Last(announced)[2]
    /\ \A i \in 1..Len(calls) :
          calls[i].via = "run_command" => calls[i].step \in StepRange(PhaseOf(calls[i]))

-----------------------------------------------------------------------------
\* The commands of the GCP and secrets phases, in order.
IsGcpOrSecretEvent(c) == Launched(c) /\ (c.cmd[1] = "gcloud" \/ IsSecretSet(c.cmd))
GcpAndSecretCommands ==
    LET q == SelectSeq(PhaseCalls, IsGcpOrSecretEvent)
    IN  [i \in 1..Len(q) |-> q[i].cmd]

\* What shared mode launches for a repository and a project number: no part
\* of it is taken from gcp_project_id or gcp_project_name.
SharedGcpCommands(owner, name, number) ==
    <<<<"gcloud", "projects", "describe", "goog-rle-assessments",
        "--format=value(projectNumber)">>,
      <<"gcloud", "iam", "service-accounts", "add-iam-policy-binding",
        "github-actions-rle@goog-rle-assessments.iam.gserviceaccount.com",
        "--project=goog-rle-assessments",
        "--role=roles/iam.workloadIdentityUser",
        "--member=principalSet://iam.googleapis.com/projects/" \o number
            \o "/locations/global/workloadIdentityPools/github-pool/attribute.repository/"
            \o owner \o "/" \o name>>>>

SharedSecretCommands(owner, name, number) ==
    <<<<"gh", "secret", "set", "GCP_WORKLOAD_IDENTITY_PROVIDER",
        "--repo", owner \o "/" \o name,
        "--body", "projects/" \o number
            \o "/locations/global/workloadIdentityPools/github-pool/providers/github-provider">>,
      <<"gh", "secret", "set", "GCP_SERVICE_ACCOUNT",
        "--repo", owner \o "/" \o name,
        "--body", "github-actions-rle@goog-rle-assessments.iam.gserviceaccount.com">>>>

SharedCommands(owner, name, number) ==
    (IF command \in {"all", "gcp"} THEN SharedGcpCommands(owner, name, number) ELSE <<>>)
    \o (IF command \in {"all", "secrets"} THEN SharedSecretCommands(owner, name, number) ELSE <<>>)

\* A command line names the shared project or the shared account.
NamesShared(cmd) ==
    \E k \in 1..Len(cmd) :
        \/ Contains(cmd[k], "goog-rle-assessments")
        \/ Contains(cmd[k], "github-actions-rle")

\* C27: shared mode ignores the per-project inputs: the commands of its GCP
\* and secrets phases are determined by the repository and by the outcomes
\* of the commands alone, so that two shared-mode runs that differ only in
\* gcp_project_id and gcp_project_name launch identical sequences of
\* commands; and an own-mode run never names the shared project
\* goog-rle-assessments or the shared account github-actions-rle in a command.
C27_SharedIgnoresProjectInputs ==
    /\ gcp_mode = "shared" =>
          LET n == Len(GcpAndSecretCommands)
              expected == SharedCommands(gh_owner, gh_repo_name,
                               IF command = "secrets" \/ CapturedNumber = None
                               THEN project_number ELSE CapturedNumber)
          IN  /\ n <= Len(expected)
              /\ GcpAndSecretCommands = SubSeq(expected, 1, n)
              /\ (pc = "exited" /\ exit_code = 0) => n = Len(expected)
    \* every command is the last of the log in the state its launch leads to
    /\ (gcp_mode = "own" /\ calls # <<>>) => ~NamesShared(Last(calls).cmd)

\* A shared-mode `all` run for the repository owner/repo completed with the
\* project inputs p1 and Other Name.
C27_Witness ==
    /\ gcp_mode = "shared"
    /\ command = "all"
    /\ gh_owner = "owner"
    /\ gcp_project_id = "p1"
    /\ gcp_project_name = "Other Name"
    /\ Len(GcpAndSecretCommands) = 4
    /\ pc = "exited"
    /\ exit_code = 0

\* The same with the project inputs proj-id and Proj Name.
C27_WitnessOtherProject ==
    /\ gcp_mode = "shared"
    /\ command = "all"
    /\ gh_owner = "owner"
    /\ gcp_project_id = "proj-id"
    /\ gcp_project_name = "Proj Name"
    /\ Len(GcpAndSecretCommands) = 4
    /\ pc = "exited"
    /\ exit_code = 0

-----------------------------------------------------------------------------
\* The places in printed of the reports of the export.
IsReport(line) ==
    \/ Len(line) >= 6 /\ SubSeq(line, 1, 6) = "Done: "
    \/ Len(line) >= 8 /\ SubSeq(line, 1, 8) = "Failed: "
Reports == {i \in 1..Len(printed) : IsReport(printed[i])}

\* What upload_demo_asset has to tell of a task in a terminal state.
ReportOf(t) ==
    IF t.state = "COMPLETED"
    THEN "Done: projects/" \o project \o "/assets/demo/null_island_ecosystems"
    ELSE IF t.error_message = None
         THEN "Failed: unknown error"
         ELSE "Failed: " \o t.error_message

\* The report is made once, of a task that has left the active state, and
\* says Done for COMPLETED and Failed for FAILED and CANCELLED.
C28_ReportsOnceWhenInactive ==
    /\ Cardinality(Reports) <= 1
    /\ task.state \in ActiveStates =>
          /\ upload_pc \in {"poll", "sleep"}
          /\ upload_exit = -1
          /\ Reports = {}
    /\ upload_pc = "status" => task.state \in TerminalStates /\ Reports = {}
    /\ \A i \in Reports :
          /\ task.state \in TerminalStates
          /\ i = Len(printed)
          /\ printed[i] = ReportOf(task)
          /\ SubSeq(printed[i], 1, 6) = "Done: " <=> task.state = "COMPLETED"
          /\ upload_pc = "exited" /\ upload_exit = 0
    /\ (task.state \in TerminalStates /\ upload_pc = "exited") => Reports # {}
    /\ sleeps > 0 => task.state # "UNSUBMITTED"

C28_WitnessDone ==
    /\ sleeps > 0
    /\ task.state = "COMPLETED"
    /\ printed = <<"Uploading demo asset...",
                   "Done: projects/cli-project/assets/demo/null_island_ecosystems">>
    /\ upload_pc = "exited"

\* The task is active still after MaxSleeps sleeps and more.
C28_WitnessStillActive ==
    /\ sleeps = MaxSleeps
    /\ task.state = "RUNNING"
    /\ upload_pc = "sleep"

====
